---- MODULE Spec2Model ----
(***************************************************************************)
(* State-machine model of the group-chat analysis bot:                     *)
(*   - message_cache.py : MessageCache (per-chat in-memory working sets    *)
(*     in front of a durable SQLite log);                                  *)
(*   - main.py          : the command handlers, the authorized-user list   *)
(*     and the rate-limit ledger.                                          *)
(*                                                                         *)
(* Time.  A clock reading (datetime) is an integer number of ticks; one    *)
(* second is TicksPerSec ticks, so a reading has a sub-second part as      *)
(* datetime.now() has microseconds.  The durable log stores a timestamp as *)
(* the string '%Y-%m-%d %H:%M:%S'; that string is modelled by the whole    *)
(* number of seconds it denotes (string order = numeric order).            *)
(***************************************************************************)
EXTENDS Integers, Sequences, FiniteSets, TLC

VARIABLES
    AUTHORIZED_USERS,   \* Config.AUTHORIZED_USERS : sequence of user ids
    user_last_command,  \* main.user_last_command  : user id -> clock reading
    now,                \* the wall clock read by datetime.now()
    chats,              \* MessageCache.chats : chat id -> deque of messages
    db,                 \* rows of the durable messages table, in rowid order
    dbOK,               \* whether statements on the SQLite connection succeed
    log,                \* history: every add_message call, in call order
    startup,            \* history: AUTHORIZED_USERS as configured at startup
    GEMINI_API_KEY,     \* Config.GEMINI_API_KEY : None or <<key>>
    ai_analyzer,        \* main.ai_analyzer : None until main is imported
    network,            \* history: calls handed to the LLM client library
    tasks,              \* the handler coroutines the event loop holds
    last                \* observation of the last operation that ran

vars == <<AUTHORIZED_USERS, user_last_command, now, chats, db, dbOK, log,
          startup, GEMINI_API_KEY, ai_analyzer, network, tasks, last>>

----------------------------------------------------------------------------
(* Bounds of the model and input sets *)

MaxMsgs == 3            \* add_message calls explored
Stamps == {0, 1, 2}     \* clock readings (ticks) given to the cache directly
MemoryCacheSize == 2    \* memory_cache_size the cache is constructed with
MaxSize == 2            \* max_size the cache is constructed with
SubSecond == {0, 1}     \* sub-second parts a clock reading can have
Users == {1, 2, 3}      \* user ids
Authors == {1, 2}       \* authors of the messages given to the cache directly
Groups == {-100, -200}  \* group / supergroup chat ids
None == <<>>            \* Python None; a value v that may be None is <<v>>

TicksPerSec == Cardinality(SubSecond)
TRIM_EVERY == 20        \* add_message trims on every 20th length
LAST_100 == 100         \* /analyze_last_100 and /conflict read 100 messages
LAST_1000 == 1000       \* a target's username is looked up in 1000 messages
HOURS_24 == 24          \* /analyze_last_24h and /digest look back 24 hours
DayTicks == HOURS_24 * 3600 * TicksPerSec
CONTEXT_RANGE == 3      \* get_user_interactions looks 3 messages each way
DEFAULT_MEMORY_CACHE_SIZE == 50  \* memory_cache_size when none is given

MaxTime == 3            \* the clock runs from 0 to MaxTime ticks
MaxCaptured == 1        \* group messages captured while commands run
RateLimitSeconds == 1   \* Config.RATE_LIMIT_SECONDS
MaxObserved == 1        \* messages captured among the dispatched updates
MaxSaid == 5            \* messages of the conversation interactions are read from
MaxRequests == 3        \* calls handed to the LLM client library
MaxInFlight == 2        \* handler coroutines held by the event loop at once

\* the LLM side of the process and the event loop
Services == <<GEMINI_API_KEY, ai_analyzer, network, tasks>>

\* a configured key, main not yet imported, nothing asked of the LLM client,
\* no handler in flight
ServicesIdle ==
    /\ GEMINI_API_KEY = <<"valid">>
    /\ ai_analyzer = None
    /\ network = <<>>
    /\ tasks = <<>>

----------------------------------------------------------------------------
(* Sequence helpers *)

Reverse(s) == [i \in 1..Len(s) |-> s[Len(s) + 1 - i]]

\* Python s[-n:] for n >= 0 (s[-0:] is the whole list)
PyTail(s, n) ==
    IF n = 0 \/ n >= Len(s) THEN s ELSE SubSeq(s, Len(s) - n + 1, Len(s))

\* the first n elements (SQL LIMIT n, n >= 0)
Limit(s, n) == IF n >= Len(s) THEN s ELSE SubSeq(s, 1, n)

\* an insertion that puts the row before the rows of its own timestamp
RECURSIVE InsertByTime_before_equals(_, _)
InsertByTime_before_equals(s, r) ==
    IF s = <<>> THEN <<r>>
    ELSE IF Head(s).timestamp < r.timestamp
         THEN <<Head(s)>> \o InsertByTime_before_equals(Tail(s), r)
         ELSE <<r>> \o s

\* insert row r after every element whose timestamp is <= r's (stable)
RECURSIVE InsertByTime(_, _)
InsertByTime(s, r) ==
    IF s = <<>> THEN <<r>>
    ELSE IF Head(s).timestamp <= r.timestamp
         THEN <<Head(s)>> \o InsertByTime(Tail(s), r)
         ELSE <<r>> \o s

\* ORDER BY timestamp ASC, rows of equal timestamp in rowid order
RECURSIVE OrderByTime(_)
OrderByTime(s) ==
    IF s = <<>> THEN <<>>
    ELSE InsertByTime(OrderByTime(SubSeq(s, 1, Len(s) - 1)), s[Len(s)])

Range(s) == {s[i] : i \in 1..Len(s)}

----------------------------------------------------------------------------
(* message_cache.py : timestamp conversions *)

\* _ts_to_str: strftime('%Y-%m-%d %H:%M:%S') drops the sub-second part
ts_to_str(ts) == ts \div TicksPerSec

\* _str_to_ts: strptime of a stored string gives that whole second
str_to_ts(str) == str * TicksPerSec

\* _row_to_message: a durable row read back as a message dictionary
row_to_message(row) ==
    [chat_id |-> row.chat_id, user_id |-> row.user_id,
     username |-> row.username, text |-> row.text,
     timestamp |-> str_to_ts(row.timestamp)]

\* the message dictionary add_message builds from its arguments
Message(chat_id, user_id, username, text, timestamp) ==
    [chat_id |-> chat_id, user_id |-> user_id, username |-> username,
     text |-> text, timestamp |-> timestamp]

\* the row the insert statement writes for a message
RowOf(m) ==
    [chat_id |-> m.chat_id, user_id |-> m.user_id, username |-> m.username,
     text |-> m.text, timestamp |-> ts_to_str(m.timestamp)]

----------------------------------------------------------------------------
(* Config.SQL_QUERIES: the statements of the durable log, over the rows d *)

RowsOfChat(d, chat_id) == SelectSeq(d, LAMBDA r : r.chat_id = chat_id)

\* "get_last_n_messages": the n most recently timestamped rows of the chat,
\* newest first
sql_get_last_n_messages(d, chat_id, n) ==
    Limit(Reverse(OrderByTime(RowsOfChat(d, chat_id))), n)

\* "get_messages_since": rows of the chat with timestamp >= since, oldest first
sql_get_messages_since(d, chat_id, since) ==
    OrderByTime(SelectSeq(RowsOfChat(d, chat_id),
                          LAMBDA r : r.timestamp >= since))

\* "get_user_messages_without_limit": the user's rows in the chat, oldest first
sql_get_user_messages_without_limit(d, chat_id, user_id) ==
    OrderByTime(SelectSeq(RowsOfChat(d, chat_id),
                          LAMBDA r : r.user_id = user_id))

\* "get_user_messages_with_limit": the user's newest rows in the chat,
\* newest first
sql_get_user_messages_with_limit(d, chat_id, user_id, limit) ==
    Limit(Reverse(sql_get_user_messages_without_limit(d, chat_id, user_id)),
          limit)

\* "get_user_messages_all_chats_without_limit": the user's rows of every
\* chat, oldest first
sql_get_user_messages_all_chats_without_limit(d, user_id) ==
    OrderByTime(SelectSeq(d, LAMBDA r : r.user_id = user_id))

\* "get_user_messages_all_chats_with_limit": the user's newest rows of every
\* chat, newest first
sql_get_user_messages_all_chats_with_limit(d, user_id, limit) ==
    Limit(Reverse(sql_get_user_messages_all_chats_without_limit(d, user_id)),
          limit)

\* "get_all_chats": the distinct chat ids in the table
sql_get_all_chats(d) == {d[i].chat_id : i \in 1..Len(d)}

MinOf(S) == CHOOSE x \in S : \A y \in S : x <= y
MaxOf(S) == CHOOSE x \in S : \A y \in S : x >= y

\* "get_chat_stats_count": COUNT(*), MIN(timestamp), MAX(timestamp)
sql_get_chat_stats_count(d, chat_id) ==
    LET rows == RowsOfChat(d, chat_id)
        ts == {r.timestamp : r \in Range(rows)}
    IN  [cnt |-> Len(rows),
         oldest |-> IF ts = {} THEN None ELSE <<MinOf(ts)>>,
         newest |-> IF ts = {} THEN None ELSE <<MaxOf(ts)>>]

\* "get_chat_stats_users": COUNT(DISTINCT user_id)
sql_get_chat_stats_users(d, chat_id) ==
    [users |-> Cardinality({r.user_id : r \in Range(RowsOfChat(d, chat_id))})]

----------------------------------------------------------------------------
(* message_cache.py : MessageCache *)

\* deque(maxlen=maxlen).append
DequeAppendOf(maxlen, q, m) ==
    IF Len(q) < maxlen THEN Append(q, m)
    ELSE IF maxlen = 0 THEN q
    ELSE Append(Tail(q), m)

\* a working set without a ceiling
append_unbounded(q, m) == Append(q, m)

\* a working set whose ceiling is one message above memory_cache_size
append_over_the_cap(q, m) ==
    IF Len(q) <= MemoryCacheSize THEN Append(q, m)
    ELSE Append(Tail(q), m)

\* deque(maxlen=memory_cache_size).append
DequeAppend(q, m) ==
    IF Len(q) < MemoryCacheSize THEN Append(q, m)
    ELSE IF MemoryCacheSize = 0 THEN q
    ELSE Append(Tail(q), m)

\* self.chats[chat_id] on the defaultdict: the deque, an empty one if absent
ChatDeque(c, chat_id) == IF chat_id \in DOMAIN c THEN c[chat_id] ELSE <<>>

WithChat(c, chat_id, q) ==
    [k \in DOMAIN c \cup {chat_id} |-> IF k = chat_id THEN q ELSE c[k]]

\* a trim that keeps the newest message only
clear_old_messages_from_memory_keeping_one(c, chat_id) ==
    IF chat_id \in DOMAIN c
    THEN WithChat(c, chat_id, PyTail(c[chat_id], 1))
    ELSE c

\* clear_old_messages_from_memory(chat_id): keep the last memory_cache_size
clear_old_messages_from_memory(c, chat_id) ==
    IF chat_id \in DOMAIN c
    THEN WithChat(c, chat_id, PyTail(c[chat_id], MemoryCacheSize))
    ELSE c

\* clear_old_messages_from_memory(): the same for every chat in memory
clear_old_messages_from_memory_all(c) ==
    [k \in DOMAIN c |-> PyTail(c[k], MemoryCacheSize)]

\* add_message putting the message in front of the working set
add_message_memory_in_front(c, m) ==
    WithChat(c, m.chat_id,
             PyTail(<<m>> \o ChatDeque(c, m.chat_id), MemoryCacheSize))

\* add_message, in-memory part: append, then trim on every 20th length
add_message_memory(c, m) ==
    LET appended == WithChat(c, m.chat_id,
                             DequeAppend(ChatDeque(c, m.chat_id), m))
    IN  IF Len(appended[m.chat_id]) % TRIM_EVERY = 0
        THEN clear_old_messages_from_memory(appended, m.chat_id)
        ELSE appended

\* add_message, durable part: one inserted row, nothing on a failed insert
add_message_durable(d, ok, m) == IF ok THEN Append(d, RowOf(m)) ELSE d

\* a read that hands the rows on as the query gives them, newest first
get_last_n_newest_first(c, d, ok, chat_id, n) ==
    LET rows == sql_get_last_n_messages(d, chat_id, n)
    IN  [i \in 1..Len(rows) |-> row_to_message(rows[i])]

\* get_last_n_messages(chat_id, n)
get_last_n_messages(c, d, ok, chat_id, n) ==
    IF ok
    THEN LET rows == sql_get_last_n_messages(d, chat_id, n)
             back == Reverse(rows)
         IN  [i \in 1..Len(back) |-> row_to_message(back[i])]
    ELSE IF chat_id \notin DOMAIN c THEN <<>>
    ELSE IF Len(c[chat_id]) >= n THEN PyTail(c[chat_id], n)
    ELSE c[chat_id]

\* get_messages_since(chat_id, since_time)
get_messages_since(c, d, ok, chat_id, since_time) ==
    IF ok
    THEN LET rows == sql_get_messages_since(d, chat_id, ts_to_str(since_time))
         IN  [i \in 1..Len(rows) |-> row_to_message(rows[i])]
    ELSE IF chat_id \notin DOMAIN c THEN <<>>
    ELSE SelectSeq(c[chat_id], LAMBDA m : m.timestamp >= since_time)

\* statistics taken from the working set alone
get_chat_stats_of_memory(c, d, ok, chat_id) ==
    LET messages == ChatDeque(c, chat_id)
    IN  [total_messages |-> Len(messages),
         unique_users |-> Cardinality({m.user_id : m \in Range(messages)}),
         oldest_message |-> IF messages = <<>> THEN None
                            ELSE <<messages[1].timestamp>>,
         newest_message |-> IF messages = <<>> THEN None
                            ELSE <<messages[Len(messages)].timestamp>>]

\* get_chat_stats(chat_id)
get_chat_stats(c, d, ok, chat_id) ==
    IF ok
    THEN LET row == sql_get_chat_stats_count(d, chat_id)
             row2 == sql_get_chat_stats_users(d, chat_id)
         IN  [total_messages |-> row.cnt,
              unique_users |-> row2.users,
              oldest_message |-> IF row.oldest = None THEN None
                                 ELSE <<str_to_ts(row.oldest[1])>>,
              newest_message |-> IF row.newest = None THEN None
                                 ELSE <<str_to_ts(row.newest[1])>>]
    ELSE IF chat_id \notin DOMAIN c
    THEN [total_messages |-> 0, unique_users |-> 0,
          oldest_message |-> None, newest_message |-> None]
    ELSE LET messages == c[chat_id]
         IN  [total_messages |-> Len(messages),
              unique_users |->
                  Cardinality({m.user_id : m \in Range(messages)}),
              oldest_message |-> IF messages = <<>> THEN None
                                 ELSE <<messages[1].timestamp>>,
              newest_message |-> IF messages = <<>> THEN None
                                 ELSE <<messages[Len(messages)].timestamp>>]

\* "if limit:" - a limit of None or 0 counts as no limit
Truthy(limit) == limit # None /\ limit[1] # 0

\* get_user_messages(chat_id, user_id, limit=None)
get_user_messages(c, d, ok, chat_id, user_id, limit) ==
    IF ok
    THEN LET rows ==
                 IF Truthy(limit)
                 THEN Reverse(sql_get_user_messages_with_limit(
                                  d, chat_id, user_id, limit[1]))
                 ELSE sql_get_user_messages_without_limit(d, chat_id, user_id)
         IN  [i \in 1..Len(rows) |-> row_to_message(rows[i])]
    ELSE IF chat_id \notin DOMAIN c THEN <<>>
    ELSE LET user_messages ==
                 SelectSeq(c[chat_id], LAMBDA m : m.user_id = user_id)
         IN  IF Truthy(limit) /\ Len(user_messages) > limit[1]
             THEN PyTail(user_messages, limit[1])
             ELSE user_messages

\* the keys of self.chats in dict order: the order the chats were first
\* appended to
RECURSIVE FirstSeen(_)
FirstSeen(history) ==
    IF history = <<>> THEN <<>>
    ELSE LET before == FirstSeen(SubSeq(history, 1, Len(history) - 1))
             chat_id == history[Len(history)].chat_id
         IN  IF chat_id \in Range(before) THEN before
             ELSE Append(before, chat_id)

\* the user's messages in memory, chat after chat in the order of keys
RECURSIVE UserMessagesInMemory(_, _, _)
UserMessagesInMemory(c, keys, user_id) ==
    IF keys = <<>> THEN <<>>
    ELSE SelectSeq(ChatDeque(c, Head(keys)), LAMBDA m : m.user_id = user_id)
         \o UserMessagesInMemory(c, Tail(keys), user_id)

\* get_user_messages_all_chats(user_id, limit)
get_user_messages_all_chats(c, d, ok, keys, user_id, limit) ==
    IF ok
    THEN LET rows ==
                 IF Truthy(limit)
                 THEN Reverse(sql_get_user_messages_all_chats_with_limit(
                                  d, user_id, limit[1]))
                 ELSE sql_get_user_messages_all_chats_without_limit(d, user_id)
         IN  [i \in 1..Len(rows) |-> row_to_message(rows[i])]
    ELSE LET all_user_messages ==
                 OrderByTime(UserMessagesInMemory(c, keys, user_id))
         IN  IF Truthy(limit) /\ Len(all_user_messages) > limit[1]
             THEN PyTail(all_user_messages, limit[1])
             ELSE all_user_messages

\* the key the user's own messages are filed under
SelfKey == <<"self">>

\* an interaction record: user_message is None or the anchor message
InteractionRecord(user_message, context_msg) ==
    [type |-> "interaction", user_message |-> user_message,
     partner_message |-> context_msg, timestamp |-> context_msg.timestamp]

\* the appends the inner loop makes for the anchor at index i (1-based):
\* one per message of another author from i - range to i + range
ContextAppends(all_messages, user_id, i, range) ==
    LET start_idx == IF i - range < 1 THEN 1 ELSE i - range
        end_idx == IF i + range > Len(all_messages) THEN Len(all_messages)
                   ELSE i + range
        window == [k \in 1..(end_idx - start_idx + 1) |-> start_idx + k - 1]
        others == SelectSeq(window,
                            LAMBDA j : all_messages[j].user_id # user_id)
    IN  [k \in 1..Len(others) |->
            [key |-> all_messages[others[k]].username,
             value |-> InteractionRecord(
                           IF others[k] > i THEN <<all_messages[i]>> ELSE None,
                           all_messages[others[k]])]]

\* every append of the outer loop from index i on, in order
RECURSIVE InteractionAppends(_, _, _, _)
InteractionAppends(all_messages, user_id, i, range) ==
    IF i > Len(all_messages) THEN <<>>
    ELSE (IF all_messages[i].user_id = user_id
          THEN <<[key |-> SelfKey, value |-> all_messages[i]]>>
               \o ContextAppends(all_messages, user_id, i, range)
          ELSE <<>>)
         \o InteractionAppends(all_messages, user_id, i + 1, range)

\* the dictionary the appends build, each list cut to its last limit entries
InteractionsOf(appends, limit) ==
    [p \in {appends[k].key : k \in 1..Len(appends)} |->
        LET mine == SelectSeq(appends, LAMBDA a : a.key = p)
            list == [k \in 1..Len(mine) |-> mine[k].value]
        IN  IF Truthy(limit) /\ Len(list) > limit[1]
            THEN PyTail(list, limit[1])
            ELSE list]

\* interactions gathered over the whole chat instead of a window
get_user_interactions_whole_chat(c, chat_id, user_id, limit) ==
    IF chat_id \notin DOMAIN c THEN <<>>
    ELSE InteractionsOf(InteractionAppends(c[chat_id], user_id, 1,
                                           Len(c[chat_id])), limit)

\* get_user_interactions(chat_id, user_id, limit=None): the dictionary as a
\* function from keys to lists, the empty function for an unknown chat
get_user_interactions(c, chat_id, user_id, limit) ==
    IF chat_id \notin DOMAIN c THEN <<>>
    ELSE InteractionsOf(InteractionAppends(c[chat_id], user_id, 1,
                                           CONTEXT_RANGE), limit)

\* get_all_chats(): the chats in memory and, when the read succeeds, those
\* of the table
get_all_chats(c, d, ok) ==
    DOMAIN c \cup (IF ok THEN sql_get_all_chats(d) ELSE {})

\* get_memory_usage_stats()
get_memory_usage_stats(c) ==
    LET RECURSIVE Sum(_)
        Sum(S) == IF S = {} THEN 0
                  ELSE LET k == CHOOSE k \in S : TRUE
                       IN  Len(c[k]) + Sum(S \ {k})
    IN  [total_messages_in_memory |-> Sum(DOMAIN c),
         total_chats_in_memory |-> Cardinality(DOMAIN c)]


----------------------------------------------------------------------------
(* The MessageCache driven directly through its public methods, as the    *)
(* tests in tests/test_message_cache.py drive it.                          *)

\* the display name a user id is captured under
UsernameOf(user_id) == <<"user", user_id>>

\* the text of the i-th message ("msg i")
TextOf(i) == <<"msg", i>>

Limits == {None} \cup {<<l>> : l \in 0..MaxMsgs}

StoreInit ==
    /\ AUTHORIZED_USERS = <<>>
    /\ user_last_command = <<>>
    /\ now = 0
    /\ chats = <<>>
    /\ db = <<>>
    /\ dbOK = TRUE
    /\ log = <<>>
    /\ startup = <<>>
    /\ ServicesIdle
    /\ last = [op |-> "init"]

Orchestrator == <<AUTHORIZED_USERS, user_last_command, now, startup, Services>>
Store == <<chats, db, dbOK, log>>

\* cache.add_message(chat_id, user_id, username, text, timestamp)
AddMessage(chat_id, user_id, timestamp) ==
    LET m == Message(chat_id, user_id, UsernameOf(user_id),
                     TextOf(Len(log) + 1), timestamp)
    IN  /\ Len(log) < MaxMsgs
        /\ chats' = add_message_memory(chats, m)
        /\ db' = add_message_durable(db, dbOK, m)
        /\ log' = Append(log, m)
        /\ last' = [op |-> "add_message", chat_id |-> chat_id]
        /\ UNCHANGED <<dbOK, Orchestrator>>

\* cache.get_last_n_messages(chat_id, n)
GetLastN(chat_id, n) ==
    /\ last' = [op |-> "get_last_n_messages", chat_id |-> chat_id, n |-> n,
                result |-> get_last_n_messages(chats, db, dbOK, chat_id, n)]
    /\ UNCHANGED <<Store, Orchestrator>>

\* cache.get_messages_since(chat_id, since_time)
GetSince(chat_id, since_time) ==
    /\ last' = [op |-> "get_messages_since", chat_id |-> chat_id,
                since_time |-> since_time,
                result |-> get_messages_since(chats, db, dbOK, chat_id,
                                              since_time)]
    /\ UNCHANGED <<Store, Orchestrator>>

\* cache.get_chat_stats(chat_id)
GetChatStats(chat_id) ==
    /\ last' = [op |-> "get_chat_stats", chat_id |-> chat_id,
                result |-> get_chat_stats(chats, db, dbOK, chat_id)]
    /\ UNCHANGED <<Store, Orchestrator>>

\* cache.clear_old_messages_from_memory(chat_id), chat_id None for every chat
ClearOldMessagesFromMemory(chat_id) ==
    /\ chats' = IF chat_id = None
                THEN clear_old_messages_from_memory_all(chats)
                ELSE clear_old_messages_from_memory(chats, chat_id[1])
    /\ last' = [op |-> "clear_old_messages_from_memory",
                chat_id |-> chat_id]
    /\ UNCHANGED <<db, dbOK, log, Orchestrator>>

\* cache.get_user_messages(chat_id, user_id, limit)
GetUserMessages(chat_id, user_id, limit) ==
    /\ last' = [op |-> "get_user_messages", chat_id |-> chat_id,
                user_id |-> user_id, limit |-> limit,
                result |-> get_user_messages(chats, db, dbOK, chat_id,
                                             user_id, limit)]
    /\ UNCHANGED <<Store, Orchestrator>>

\* A run appends messages and then makes one read, whose result is examined
\* (a read changes nothing in the cache, so further calls after it reach no
\* cache state and no result that is not reached this way).
Appending == last.op \in {"init", "add_message"}

StoreNext ==
    /\ Appending
    /\ \/ \E c \in Groups, u \in Authors, t \in Stamps : AddMessage(c, u, t)
       \/ \E c \in Groups, n \in 0..(MaxMsgs + 1) : GetLastN(c, n)
       \/ \E c \in Groups, t \in Stamps : GetSince(c, t)
       \/ \E c \in Groups : GetChatStats(c)
       \/ \E c \in Groups, u \in Authors, l \in Limits :
              GetUserMessages(c, u, l)
       \/ \E c \in {None} \cup {<<g>> : g \in Groups} :
              ClearOldMessagesFromMemory(c)

SpecStore == StoreInit /\ [][StoreNext]_vars

----------------------------------------------------------------------------
(* A conversation in one chat of a cache constructed with the default      *)
(* memory_cache_size, as tests/test_message_cache.py constructs it, and    *)
(* one read of the interactions of a user.  Each message comes a tick      *)
(* after the one before.                                                   *)

Speakers == {1, 2, 3}
ConversationChat == -100

\* the display names a speaker is captured under; one speaker may go by
\* the name "self"
NamesOf(user_id) ==
    {UsernameOf(user_id)} \cup (IF user_id = 3 THEN {SelfKey} ELSE {})

\* cache.add_message in the conversation (fewer than TRIM_EVERY messages,
\* so no trim)
Say(user_id, username) ==
    LET m == Message(ConversationChat, user_id, username,
                     TextOf(Len(log) + 1), Len(log) * TicksPerSec)
    IN  /\ Len(log) < MaxSaid
        /\ chats' = WithChat(chats, ConversationChat,
                             DequeAppendOf(DEFAULT_MEMORY_CACHE_SIZE,
                                           ChatDeque(chats, ConversationChat),
                                           m))
        /\ db' = add_message_durable(db, dbOK, m)
        /\ log' = Append(log, m)
        /\ last' = [op |-> "add_message", chat_id |-> ConversationChat]
        /\ UNCHANGED <<dbOK, Orchestrator>>

\* cache.get_user_interactions(chat_id, user_id, limit)
GetUserInteractions(chat_id, user_id, limit) ==
    /\ last' = [op |-> "get_user_interactions", chat_id |-> chat_id,
                user_id |-> user_id, limit |-> limit,
                result |-> get_user_interactions(chats, chat_id, user_id,
                                                 limit)]
    /\ UNCHANGED <<Store, Orchestrator>>

InteractionsNext ==
    \/ \E u \in Speakers : \E name \in NamesOf(u) :
           Appending /\ Say(u, name)
    \/ \E c \in Groups, u \in Speakers, l \in {None, <<1>>} :
           Appending /\ GetUserInteractions(c, u, l)

SpecInteractions == StoreInit /\ [][InteractionsNext]_vars

----------------------------------------------------------------------------
(* The MessageCache over a connection whose statements may fail: the       *)
(* durable insert and the durable reads are in try / except blocks.  Each  *)
(* message comes a tick after the one before, as datetime.now() gives.    *)

\* an add_message whose insert is not in a try block: the failure leaves
\* the method at the insert
add_message_unguarded(c, d, ok, m) ==
    IF ok
    THEN [chats |-> add_message_memory(c, m),
          db |-> add_message_durable(d, ok, m), raised |-> FALSE]
    ELSE [chats |-> WithChat(c, m.chat_id,
                             DequeAppend(ChatDeque(c, m.chat_id), m)),
          db |-> d, raised |-> TRUE]

\* add_message as a whole: the working sets and the table after the call,
\* and whether an exception left the method
add_message(c, d, ok, m) ==
    [chats |-> add_message_memory(c, m),
     db |-> add_message_durable(d, ok, m),
     raised |-> FALSE]

\* cache.add_message(...) whether or not the connection works
AddMessageAnyway(chat_id, user_id) ==
    LET m == Message(chat_id, user_id, UsernameOf(user_id),
                     TextOf(Len(log) + 1), Len(log))
        after == add_message(chats, db, dbOK, m)
    IN  /\ Len(log) < MaxMsgs
        /\ chats' = after.chats
        /\ db' = after.db
        /\ log' = Append(log, m)
        /\ last' = [op |-> "add_message", chat_id |-> chat_id,
                    message |-> m, raised |-> after.raised]
        /\ UNCHANGED <<dbOK, Orchestrator>>

\* statements on the connection begin to fail (the file is locked, the
\* disk is full, the connection was closed)
ConnectionFails ==
    /\ dbOK
    /\ dbOK' = FALSE
    /\ UNCHANGED <<chats, db, log, last, Orchestrator>>

\* statements on the connection succeed again
ConnectionRecovers ==
    /\ ~dbOK
    /\ dbOK' = TRUE
    /\ UNCHANGED <<chats, db, log, last, Orchestrator>>

\* a run appends messages while the connection fails and recovers, and
\* then makes one read
FaultyNext ==
    \/ \E c \in Groups, u \in Authors : Appending /\ AddMessageAnyway(c, u)
    \/ Appending /\ ConnectionFails
    \/ Appending /\ ConnectionRecovers
    \/ \E c \in Groups, n \in 0..(MaxMsgs + 1) : Appending /\ GetLastN(c, n)

SpecFaulty == StoreInit /\ [][FaultyNext]_vars

----------------------------------------------------------------------------
(* main.py : authorization and rate limiting *)

\* a bot without the allow-list: everyone is authorized
everyone_authorized(users, user_id) == TRUE

\* is_user_authorized
is_user_authorized(users, user_id) == user_id \in Range(users)

\* a bot where every member of the list administers it
any_member_is_admin(users, user_id) == user_id \in Range(users)

\* a test that takes every caller for the main administrator of an empty list
is_main_admin_of_empty_list(users, user_id) ==
    Len(users) = 0 \/ user_id = users[1]

\* is_main_admin
is_main_admin(users, user_id) == Len(users) > 0 /\ user_id = users[1]

\* list.remove(x): drop the first occurrence of x
RECURSIVE ListRemove(_, _)
ListRemove(s, x) ==
    IF s = <<>> THEN <<>>
    ELSE IF Head(s) = x THEN Tail(s)
    ELSE <<Head(s)>> \o ListRemove(Tail(s), x)

\* an addition that appends without looking for the id
add_authorized_user_unchecked(users, user_id) ==
    [ok |-> TRUE, users |-> Append(users, user_id)]

\* add_authorized_user: [ok, users] - the returned flag and the list after
add_authorized_user(users, user_id) ==
    IF user_id \notin Range(users)
    THEN [ok |-> TRUE, users |-> Append(users, user_id)]
    ELSE [ok |-> FALSE, users |-> users]

\* a removal that does not spare the main administrator
remove_unguarded(users, user_id) ==
    IF user_id \in Range(users)
    THEN [ok |-> TRUE, users |-> ListRemove(users, user_id)]
    ELSE [ok |-> FALSE, users |-> users]

\* remove_authorized_user: [ok, users]
remove_authorized_user(users, user_id) ==
    IF user_id \in Range(users) /\ ~is_main_admin(users, user_id)
    THEN [ok |-> TRUE, users |-> ListRemove(users, user_id)]
    ELSE [ok |-> FALSE, users |-> users]

\* a gate that records the command and never rejects it
no_rate_limit(ledger, user_id, t) ==
    [ok |-> TRUE,
     ledger |-> [k \in DOMAIN ledger \cup {user_id} |->
                     IF k = user_id THEN t ELSE ledger[k]]]

\* a gate that records every attempt, the rejected ones too
check_rate_limit_recording_attempts(ledger, user_id, t) ==
    [ok |-> ~(/\ user_id \in DOMAIN ledger
              /\ t - ledger[user_id] < RateLimitSeconds * TicksPerSec),
     ledger |-> [k \in DOMAIN ledger \cup {user_id} |->
                     IF k = user_id THEN t ELSE ledger[k]]]

\* check_rate_limit: [ok, ledger] - the returned flag and the ledger after
check_rate_limit(ledger, user_id, t) ==
    IF /\ user_id \in DOMAIN ledger
       /\ t - ledger[user_id] < RateLimitSeconds * TicksPerSec
    THEN [ok |-> FALSE, ledger |-> ledger]
    ELSE [ok |-> TRUE,
          ledger |-> [k \in DOMAIN ledger \cup {user_id} |->
                          IF k = user_id THEN t ELSE ledger[k]]]

----------------------------------------------------------------------------
(* ai_analyzer.py : what a handler sees of an analysis operation.  Every   *)
(* operation returns a fixed string for an empty message list without      *)
(* calling the model, and otherwise makes one call to the generation       *)
(* endpoint and returns a display string.                                 *)

Analyze(operation, messages) ==
    IF messages = <<>>
    THEN [operation |-> operation, llm_calls |-> 0, result |-> "no_messages",
          messages |-> messages]
    ELSE [operation |-> operation, llm_calls |-> 1, result |-> "analysis",
          messages |-> messages]

NoAnalysis ==
    [operation |-> "none", llm_calls |-> 0, result |-> "none",
     messages |-> <<>>]

----------------------------------------------------------------------------
(* main.py : updates and what a handler run is observed to do *)

ChatIsPrivate(chat_id) == chat_id \notin Groups

\* an outbound message: the chat it goes to and what it carries
Out(to, kind) == [to |-> to, kind |-> kind]

\* the observation a handler run leaves: the command, the chat and sender of
\* the update, the outbound messages in order, the Message Store methods it
\* called, and the Analyzer operation run with its calls to the LLM endpoint
Ran(op, chat_id, from_user, sent, store, analysis) ==
    [op |-> op, chat_id |-> chat_id, from_user |-> from_user, sent |-> sent,
     store |-> store, analysis |-> analysis]

\* the updates explored: a group chat with or without a known sender, or the
\* sender's one-to-one chat, whose id is the sender's id
UpdateOK(chat_id, from_user) ==
    \/ chat_id \in Groups
    \/ from_user # None /\ chat_id = from_user[1]

Frozen == <<dbOK, log, startup, Services>>

\* the clock advances
Tick ==
    /\ now < MaxTime
    /\ now' = now + 1
    /\ last' = [op |-> "tick"]
    /\ UNCHANGED <<AUTHORIZED_USERS, user_last_command, chats, db, Frozen>>

\* cache_group_message: a text message that is no command, in a group chat
CacheGroupMessage(chat_id, from_user) ==
    /\ chat_id \in Groups
    /\ IF from_user = None
       THEN /\ last' = Ran("message", chat_id, from_user, <<>>, {}, NoAnalysis)
            /\ UNCHANGED <<chats, db, log>>
       ELSE LET m == Message(chat_id, from_user[1], UsernameOf(from_user[1]),
                             TextOf(Len(log) + 1), now)
            IN  /\ Len(log) < MaxCaptured
                /\ chats' = add_message_memory(chats, m)
                /\ db' = add_message_durable(db, dbOK, m)
                /\ log' = Append(log, m)
                /\ last' = Ran("message", chat_id, from_user, <<>>,
                               {"add_message", "get_chat_stats"}, NoAnalysis)
    /\ UNCHANGED <<AUTHORIZED_USERS, user_last_command, now, dbOK, startup,
                   Services>>


----------------------------------------------------------------------------
(* main.py : command handlers.  A handler is an operator giving the state  *)
(* it leaves (the authorized-user list, the ledger, the working sets) and  *)
(* the observation of its run; pm_ok tells whether the platform delivers a *)
(* message to the sender's one-to-one chat (it does not when the sender    *)
(* never started a dialogue with the bot).                                 *)

Done(users, ledger, c, obs) ==
    [users |-> users, ledger |-> ledger, chats |-> c, obs |-> obs]

\* a run that ends before touching the Store, the Analyzer or any state
Rejected(op, chat_id, from_user, sent) ==
    Done(AUTHORIZED_USERS, user_last_command, chats,
         Ran(op, chat_id, from_user, sent, {}, NoAnalysis))

\* a run that check_rate_limit stopped: the ledger is the one the check left
Limited(ledger, op, chat_id, from_user) ==
    Done(AUTHORIZED_USERS, ledger, chats,
         Ran(op, chat_id, from_user, <<Out(chat_id, "rate_limit")>>, {},
             NoAnalysis))

\* a run that passed the rate-limit gate: the ledger is the updated one
Passed(ledger, op, chat_id, from_user, sent, store, analysis) ==
    Done(AUTHORIZED_USERS, ledger, chats,
         Ran(op, chat_id, from_user, sent, store, analysis))

\* the steps of a handler in the order it takes them: a message the
\* platform delivered, a message it refused, a call of the Analyzer
Sent(what) == [action |-> "send", what |-> what]

Undelivered(what) == [action |-> "send_failed", what |-> what]

ANALYZE_MESSAGES ==
    [action |-> "call",
     what |-> [to |-> "ai_analyzer", kind |-> "analyze_messages"]]

Reached(steps, step) ==
    \E i \in DOMAIN steps :
        steps[i].action = step.action /\ steps[i] = step

IsSent(step) == step.action = "send"

\* the messages the platform delivered, in the order they were sent
Delivered(steps) ==
    LET sends == SelectSeq(steps, IsSent)
    IN  [i \in DOMAIN sends |-> sends[i].what]

\* the run with the steps it took added to what is observed of it
Stepped(run, steps) == [run EXCEPT !.obs = @ @@ [steps |-> steps]]

\* handle_analysis_command with the Analyzer called ahead of the private
\* notification
analysis_steps_analysing_first(ack, chat_id, user_id, pm_ok) ==
    IF ~pm_ok
    THEN <<Sent(ack), ANALYZE_MESSAGES,
           Undelivered(Out(user_id, "analysis_underway")),
           Sent(Out(chat_id, "private_notification_failed"))>>
    ELSE <<Sent(ack), ANALYZE_MESSAGES,
           Sent(Out(user_id, "analysis_underway")),
           Sent(Out(user_id, "report"))>>

\* handle_analysis_command once the window is known to hold messages: the
\* acknowledgement in the chat, bot.send_message to the user inside try,
\* the notice in the chat and return when it raises, otherwise
\* ai_analyzer.analyze_messages and the report sent to the user
analysis_steps(ack, chat_id, user_id, pm_ok) ==
    IF ~pm_ok
    THEN <<Sent(ack), Undelivered(Out(user_id, "analysis_underway")),
           Sent(Out(chat_id, "private_notification_failed"))>>
    ELSE <<Sent(ack), Sent(Out(user_id, "analysis_underway")),
           ANALYZE_MESSAGES, Sent(Out(user_id, "report"))>>

\* handle_analysis_command reading the window first and taking the rate-limit
\* slot only for a window that holds messages
handle_analysis_command_reading_first(analysis_type, chat_id, from_user, pm_ok) ==
    LET op == IF analysis_type = "last_100" THEN "analyze_last_100"
              ELSE "analyze_last_24h"
    IN
    IF ChatIsPrivate(chat_id)
    THEN Rejected(op, chat_id, from_user, <<Out(chat_id, "group_only")>>)
    ELSE IF from_user = None
    THEN Rejected(op, chat_id, from_user, <<>>)
    ELSE
    LET user_id == from_user[1]
        gate == check_rate_limit(user_last_command, user_id, now)
        messages ==
            IF analysis_type = "last_100"
            THEN get_last_n_messages(chats, db, dbOK, chat_id, LAST_100)
            ELSE get_messages_since(chats, db, dbOK, chat_id, now - DayTicks)
        cache_stats == get_chat_stats(chats, db, dbOK, chat_id)
        read == IF analysis_type = "last_100" THEN "get_last_n_messages"
                ELSE "get_messages_since"
        ack == [to |-> chat_id, kind |-> "analysis_started",
                count |-> Len(messages)]
    IN
    IF ~is_user_authorized(AUTHORIZED_USERS, user_id)
    THEN Rejected(op, chat_id, from_user, <<Out(chat_id, "not_authorized")>>)
    ELSE IF ~gate.ok
    THEN Limited(gate.ledger, op, chat_id, from_user)
    ELSE IF messages = <<>>
    THEN Passed(user_last_command, op, chat_id, from_user,
                <<Out(chat_id, IF cache_stats.total_messages = 0
                               THEN "no_messages"
                               ELSE "not_enough_messages")>>,
                {read, "get_chat_stats"}, NoAnalysis)
    ELSE
    LET steps == analysis_steps(ack, chat_id, user_id, pm_ok)
    IN  Stepped(Passed(gate.ledger, op, chat_id, from_user, Delivered(steps),
                       {read},
                       IF Reached(steps, ANALYZE_MESSAGES)
                       THEN Analyze("analyze_messages", messages)
                       ELSE NoAnalysis),
                steps)

\* handle_analysis_command(message, analysis_type)
handle_analysis_command(analysis_type, chat_id, from_user, pm_ok) ==
    LET op == IF analysis_type = "last_100" THEN "analyze_last_100"
              ELSE "analyze_last_24h"
    IN
    IF ChatIsPrivate(chat_id)
    THEN Rejected(op, chat_id, from_user, <<Out(chat_id, "group_only")>>)
    ELSE IF from_user = None
    THEN Rejected(op, chat_id, from_user, <<>>)
    ELSE
    LET user_id == from_user[1]
        gate == check_rate_limit(user_last_command, user_id, now)
        messages ==
            IF analysis_type = "last_100"
            THEN get_last_n_messages(chats, db, dbOK, chat_id, LAST_100)
            ELSE get_messages_since(chats, db, dbOK, chat_id, now - DayTicks)
        cache_stats == get_chat_stats(chats, db, dbOK, chat_id)
        read == IF analysis_type = "last_100" THEN "get_last_n_messages"
                ELSE "get_messages_since"
        ack == [to |-> chat_id, kind |-> "analysis_started",
                count |-> Len(messages)]
    IN
    IF ~is_user_authorized(AUTHORIZED_USERS, user_id)
    THEN Rejected(op, chat_id, from_user, <<Out(chat_id, "not_authorized")>>)
    ELSE IF ~gate.ok
    THEN Limited(gate.ledger, op, chat_id, from_user)
    ELSE IF messages = <<>>
    THEN Passed(gate.ledger, op, chat_id, from_user,
                <<Out(chat_id, IF cache_stats.total_messages = 0
                               THEN "no_messages"
                               ELSE "not_enough_messages")>>,
                {read, "get_chat_stats"}, NoAnalysis)
    ELSE
    LET steps == analysis_steps(ack, chat_id, user_id, pm_ok)
    IN  Stepped(Passed(gate.ledger, op, chat_id, from_user, Delivered(steps),
                       {read},
                       IF Reached(steps, ANALYZE_MESSAGES)
                       THEN Analyze("analyze_messages", messages)
                       ELSE NoAnalysis),
                steps)

\* chat_stats_command
chat_stats_command(chat_id, from_user) ==
    IF ChatIsPrivate(chat_id)
    THEN Rejected("chat_stats", chat_id, from_user,
                  <<Out(chat_id, "private_chat_only")>>)
    ELSE IF from_user = None
    THEN Rejected("chat_stats", chat_id, from_user, <<>>)
    ELSE IF ~is_user_authorized(AUTHORIZED_USERS, from_user[1])
    THEN Rejected("chat_stats", chat_id, from_user,
                  <<Out(chat_id, "not_authorized")>>)
    ELSE Passed(user_last_command, "chat_stats", chat_id, from_user,
                <<[to |-> chat_id, kind |-> "chat_stats",
                   stats |-> get_chat_stats(chats, db, dbOK, chat_id),
                   memory |-> get_memory_usage_stats(chats)]>>,
                {"get_chat_stats", "get_memory_usage_stats"}, NoAnalysis)

\* a personal analysis that posts its report in the chat the command came
\* from
PersonalAnalysisInChat(ledger, op, chat_id, from_user, target_user_id, pm_ok, lookup) ==
    LET thinking == Out(chat_id, "thinking")
        user_messages ==
            get_user_messages(chats, db, dbOK, chat_id, target_user_id, None)
        store == lookup \cup {"get_user_messages", "get_user_interactions"}
    IN
    IF user_messages = <<>>
    THEN Passed(ledger, op, chat_id, from_user,
                <<thinking, Out(chat_id, "edit:no_messages_for_analysis")>>,
                store, NoAnalysis)
    ELSE Passed(ledger, op, chat_id, from_user,
                <<thinking, Out(chat_id, "delete:thinking"),
                  Out(chat_id, "report")>>,
                store,
                Analyze("analyze_user_communication", user_messages))

\* the part my_communication_command and analyze_user_command share once
\* the target is known: the placeholder, the reads, the analysis, delivery
PersonalAnalysis(ledger, op, chat_id, from_user, target_user_id, pm_ok, lookup) ==
    LET user_id == from_user[1]
        thinking == Out(chat_id, "thinking")
        user_messages ==
            get_user_messages(chats, db, dbOK, chat_id, target_user_id, None)
        store == lookup \cup {"get_user_messages", "get_user_interactions"}
    IN
    IF user_messages = <<>>
    THEN Passed(ledger, op, chat_id, from_user,
                <<thinking, Out(chat_id, "edit:no_messages_for_analysis")>>,
                store, NoAnalysis)
    ELSE IF ~pm_ok
    THEN Passed(ledger, op, chat_id, from_user,
                <<thinking, Out(chat_id, "delete:thinking")>>,
                store,
                Analyze("analyze_user_communication", user_messages))
    ELSE Passed(ledger, op, chat_id, from_user,
                <<thinking, Out(chat_id, "delete:thinking"),
                  Out(user_id, "report"),
                  Out(chat_id, "analysis_sent_private")>>,
                store,
                Analyze("analyze_user_communication", user_messages))

\* my_communication_command
my_communication_command(chat_id, from_user, pm_ok) ==
    IF ChatIsPrivate(chat_id)
    THEN Rejected("my_communication", chat_id, from_user,
                  <<Out(chat_id, "private_chat_only")>>)
    ELSE IF from_user = None
    THEN Rejected("my_communication", chat_id, from_user, <<>>)
    ELSE
    LET user_id == from_user[1]
        gate == check_rate_limit(user_last_command, user_id, now)
    IN
    IF ~is_user_authorized(AUTHORIZED_USERS, user_id)
    THEN Rejected("my_communication", chat_id, from_user,
                  <<Out(chat_id, "not_authorized")>>)
    ELSE IF ~gate.ok
    THEN Limited(gate.ledger, "my_communication", chat_id, from_user)
    ELSE PersonalAnalysis(gate.ledger, "my_communication", chat_id,
                          from_user, user_id, pm_ok, {})

\* the first message of the sequence captured under the username, if any
\* (usernames are compared case-insensitively; a display name stands for
\* its lower-case form)
FindByUsername(messages, username) ==
    LET hits == SelectSeq(messages, LAMBDA m : m.username = username)
    IN  IF hits = <<>> THEN None ELSE <<hits[1].user_id>>

\* analyze_user_command
analyze_user_command(chat_id, from_user, form, target, pm_ok) ==
    IF ChatIsPrivate(chat_id)
    THEN Rejected("analyze_user", chat_id, from_user,
                  <<Out(chat_id, "private_chat_only")>>)
    ELSE IF from_user = None
    THEN Rejected("analyze_user", chat_id, from_user, <<>>)
    ELSE
    LET user_id == from_user[1]
        gate == check_rate_limit(user_last_command, user_id, now)
        found == FindByUsername(
                     get_last_n_messages(chats, db, dbOK, chat_id, LAST_1000),
                     UsernameOf(target))
    IN
    IF ~is_user_authorized(AUTHORIZED_USERS, user_id)
    THEN Rejected("analyze_user", chat_id, from_user,
                  <<Out(chat_id, "not_authorized")>>)
    ELSE IF ~gate.ok
    THEN Limited(gate.ledger, "analyze_user", chat_id, from_user)
    ELSE IF form = "reply"
    THEN PersonalAnalysis(gate.ledger, "analyze_user", chat_id, from_user,
                          target, pm_ok, {})
    ELSE IF form = "missing"
    THEN Passed(gate.ledger, "analyze_user", chat_id, from_user,
                <<Out(chat_id, "analyze_user_usage")>>, {}, NoAnalysis)
    ELSE IF form = "handle"
    THEN IF found = None
         THEN Passed(gate.ledger, "analyze_user", chat_id, from_user,
                     <<Out(chat_id, "target_not_found")>>,
                     {"get_last_n_messages"}, NoAnalysis)
         ELSE PersonalAnalysis(gate.ledger, "analyze_user", chat_id,
                               from_user, found[1], pm_ok,
                               {"get_last_n_messages"})
    ELSE Passed(gate.ledger, "analyze_user", chat_id, from_user,
                <<Out(chat_id, "invalid_format")>>, {}, NoAnalysis)

\* the first user captured under the username in any chat the cache knows
FindByUsernameAllChats(username) ==
    LET known == get_all_chats(chats, db, dbOK)
        hits == {c \in known :
                    FindByUsername(
                        get_last_n_messages(chats, db, dbOK, c, LAST_1000),
                        username) # None}
    IN  IF hits = {} THEN None
        ELSE FindByUsername(
                 get_last_n_messages(chats, db, dbOK, CHOOSE c \in hits : TRUE,
                                     LAST_1000),
                 username)

\* the Store methods a cross-chat lookup calls
AllChatsLookup ==
    {"get_all_chats"} \cup
    (IF get_all_chats(chats, db, dbOK) = {} THEN {}
     ELSE {"get_last_n_messages"})

\* analyze_user_all_command, once the target is known
CrossChatAnalysis(ledger, chat_id, from_user, target_user_id, pm_ok, lookup) ==
    LET user_id == from_user[1]
        thinking == Out(chat_id, "thinking")
        user_messages ==
            get_user_messages_all_chats(chats, db, dbOK, FirstSeen(log),
                                        target_user_id, None)
        store == lookup \cup {"get_user_messages_all_chats",
                              "get_user_interactions_all_chats",
                              "get_user_chat_stats"}
        analysis == Analyze("analyze_user_communication", user_messages)
    IN
    IF user_messages = <<>>
    THEN Passed(ledger, "analyze_user_all", chat_id, from_user,
                <<thinking, Out(chat_id, "edit:no_messages_for_analysis")>>,
                store, NoAnalysis)
    ELSE IF ChatIsPrivate(chat_id)
    THEN Passed(ledger, "analyze_user_all", chat_id, from_user,
                <<thinking, Out(chat_id, "delete:thinking"),
                  Out(chat_id, "report")>>,
                store, analysis)
    ELSE IF ~pm_ok
    THEN Passed(ledger, "analyze_user_all", chat_id, from_user,
                <<thinking, Out(chat_id, "delete:thinking")>>,
                store, analysis)
    ELSE Passed(ledger, "analyze_user_all", chat_id, from_user,
                <<thinking, Out(chat_id, "delete:thinking"),
                  Out(user_id, "report"),
                  Out(chat_id, "analysis_sent_private")>>,
                store, analysis)

\* analyze_user_all_command
analyze_user_all_command(chat_id, from_user, form, target, pm_ok) ==
    IF from_user = None
    THEN Rejected("analyze_user_all", chat_id, from_user, <<>>)
    ELSE
    LET user_id == from_user[1]
        is_private_chat == ChatIsPrivate(chat_id)
        gate == check_rate_limit(user_last_command, user_id, now)
        found == FindByUsernameAllChats(UsernameOf(target))
    IN
    IF ~is_user_authorized(AUTHORIZED_USERS, user_id)
    THEN Rejected("analyze_user_all", chat_id, from_user,
                  <<Out(chat_id, "not_authorized")>>)
    ELSE IF ~gate.ok
    THEN Limited(gate.ledger, "analyze_user_all", chat_id, from_user)
    ELSE IF ~is_private_chat /\ form = "reply"
    THEN CrossChatAnalysis(gate.ledger, chat_id, from_user, target, pm_ok, {})
    ELSE IF form \in {"reply", "missing"}
    THEN Passed(gate.ledger, "analyze_user_all", chat_id, from_user,
                <<Out(chat_id, "analyze_user_all_usage")>>, {}, NoAnalysis)
    ELSE IF form = "handle"
    THEN IF found = None
         THEN Passed(gate.ledger, "analyze_user_all", chat_id, from_user,
                     <<Out(chat_id, "target_not_found")>>,
                     AllChatsLookup, NoAnalysis)
         ELSE CrossChatAnalysis(gate.ledger, chat_id, from_user, found[1],
                                pm_ok, AllChatsLookup)
    ELSE IF form = "id"
    THEN CrossChatAnalysis(gate.ledger, chat_id, from_user, target, pm_ok,
                           AllChatsLookup)
    ELSE Passed(gate.ledger, "analyze_user_all", chat_id, from_user,
                <<Out(chat_id, "invalid_format")>>, {}, NoAnalysis)

\* cmd_conflict and cmd_digest with the rate-limit gate ahead of the chat-type
\* check
Narrative_limiting_first(op, chat_id, from_user, read, messages, empty_notice, operation, gone) ==
    IF from_user = None
    THEN Rejected(op, chat_id, from_user, <<>>)
    ELSE
    LET gate == check_rate_limit(user_last_command, from_user[1], now)
    IN
    IF ~gate.ok
    THEN Limited(gate.ledger, op, chat_id, from_user)
    ELSE IF ChatIsPrivate(chat_id)
    THEN Passed(gate.ledger, op, chat_id, from_user,
                <<Out(chat_id, "group_only")>>, {}, NoAnalysis)
    ELSE IF messages = <<>>
    THEN Passed(gate.ledger, op, chat_id, from_user,
                <<Out(chat_id, empty_notice)>>, {read}, NoAnalysis)
    ELSE Passed(gate.ledger, op, chat_id, from_user,
                <<Out(chat_id, "thinking"), Out(chat_id, "delete:thinking"),
                  Out(chat_id, "report")>>,
                {read}, Analyze(operation, messages))

\* safe_edit_message(message, text): the edit that reached the chat; none
\* when the platform answers 'message to edit not found', which the function
\* swallows
safe_edit_message(found, chat_id, kind) ==
    IF found THEN <<Out(chat_id, kind)>> ELSE <<>>

\* what cmd_conflict and cmd_digest share: the gates, then the narrative
\* posted in the chat the command came from.  gone tells that the placeholder
\* is no longer on the platform when the handler comes to delete it:
\* thinking_msg.delete() then raises inside try, and the except branch edits
\* the placeholder through safe_edit_message
Narrative(op, chat_id, from_user, read, messages, empty_notice, operation, gone) ==
    IF ChatIsPrivate(chat_id)
    THEN Rejected(op, chat_id, from_user, <<Out(chat_id, "group_only")>>)
    ELSE IF from_user = None
    THEN Rejected(op, chat_id, from_user, <<>>)
    ELSE
    LET gate == check_rate_limit(user_last_command, from_user[1], now)
    IN
    IF ~gate.ok
    THEN Limited(gate.ledger, op, chat_id, from_user)
    ELSE IF messages = <<>>
    THEN Passed(gate.ledger, op, chat_id, from_user,
                <<Out(chat_id, empty_notice)>>, {read}, NoAnalysis)
    ELSE IF gone
    THEN Passed(gate.ledger, op, chat_id, from_user,
                <<Out(chat_id, "thinking")>>
                    \o safe_edit_message(~gone, chat_id, "analysis_error"),
                {read}, Analyze(operation, messages))
    ELSE Passed(gate.ledger, op, chat_id, from_user,
                <<Out(chat_id, "thinking"), Out(chat_id, "delete:thinking"),
                  Out(chat_id, "report")>>,
                {read}, Analyze(operation, messages))

\* cmd_conflict
cmd_conflict(chat_id, from_user, gone) ==
    Narrative("conflict", chat_id, from_user, "get_last_n_messages",
              get_last_n_messages(chats, db, dbOK, chat_id, LAST_100),
              "not_enough_messages", "analyze_conflict", gone)

\* cmd_digest
cmd_digest(chat_id, from_user, gone) ==
    Narrative("digest", chat_id, from_user, "get_messages_since",
              get_messages_since(chats, db, dbOK, chat_id, now - DayTicks),
              "no_messages_24h", "analyze_tips", gone)


----------------------------------------------------------------------------
(* main.py : administrative commands.  resolved tells whether the platform *)
(* finds the chat member an @handle names.                                 *)

Managed(users, op, chat_id, from_user, sent) ==
    Done(users, user_last_command, chats,
         Ran(op, chat_id, from_user, sent, {}, NoAnalysis))

\* an outbound message that names a user
About(to, kind, user_id) == [to |-> to, kind |-> kind, user_id |-> user_id]

\* what add_user_command and remove_user_command share: the gates and the
\* forms a target comes in; change is what the list operation returned
ManageUsers(op, chat_id, from_user, form, target, resolved, change, denial, usage, done, refused, done_by_id, refused_by_id) ==
    IF ChatIsPrivate(chat_id)
    THEN Rejected(op, chat_id, from_user,
                  <<Out(chat_id, "private_chat_only")>>)
    ELSE IF from_user = None
    THEN Rejected(op, chat_id, from_user, <<>>)
    ELSE IF ~is_main_admin(AUTHORIZED_USERS, from_user[1])
    THEN Rejected(op, chat_id, from_user, <<Out(chat_id, denial)>>)
    ELSE IF form = "reply"
    THEN Managed(change.users, op, chat_id, from_user,
                 <<About(chat_id, IF change.ok THEN done ELSE refused,
                         target)>>)
    ELSE IF form = "missing"
    THEN Rejected(op, chat_id, from_user, <<Out(chat_id, usage)>>)
    ELSE IF form = "handle"
    THEN IF resolved
         THEN Managed(change.users, op, chat_id, from_user,
                      <<About(chat_id,
                              IF change.ok THEN done
                              ELSE IF op = "remove_user" THEN refused_by_id
                              ELSE refused,
                              target)>>)
         ELSE Rejected(op, chat_id, from_user,
                       <<Out(chat_id, "user_not_found")>>)
    ELSE IF form = "id"
    THEN Managed(change.users, op, chat_id, from_user,
                 <<About(chat_id,
                         IF change.ok THEN done_by_id ELSE refused_by_id,
                         target)>>)
    ELSE Rejected(op, chat_id, from_user, <<Out(chat_id, "invalid_format")>>)

\* add_user_command
add_user_command(chat_id, from_user, form, target, resolved) ==
    ManageUsers("add_user", chat_id, from_user, form, target, resolved,
                add_authorized_user(AUTHORIZED_USERS, target),
                "main_admin_only_add", "add_user_usage",
                "user_added", "user_already_added",
                "user_added_by_id", "user_already_added_by_id")

\* remove_user_command
remove_user_command(chat_id, from_user, form, target, resolved) ==
    ManageUsers("remove_user", chat_id, from_user, form, target, resolved,
                remove_authorized_user(AUTHORIZED_USERS, target),
                "main_admin_only_remove", "remove_user_usage",
                "user_removed", "user_cannot_remove",
                "user_removed_by_id", "user_cannot_remove_by_id")

\* list_users_command
list_users_command(chat_id, from_user) ==
    IF ChatIsPrivate(chat_id)
    THEN Rejected("list_users", chat_id, from_user,
                  <<Out(chat_id, "private_chat_only")>>)
    ELSE IF from_user = None
    THEN Rejected("list_users", chat_id, from_user, <<>>)
    ELSE IF ~is_main_admin(AUTHORIZED_USERS, from_user[1])
    THEN Rejected("list_users", chat_id, from_user,
                  <<Out(chat_id, "main_admin_only_list")>>)
    ELSE IF AUTHORIZED_USERS = <<>>
    THEN Rejected("list_users", chat_id, from_user,
                  <<Out(chat_id, "user_list_empty")>>)
    ELSE Rejected("list_users", chat_id, from_user,
                  <<[to |-> chat_id, kind |-> "user_list",
                     user_list |-> AUTHORIZED_USERS]>>)

\* clear_memory_command
clear_memory_command(chat_id, from_user) ==
    IF ChatIsPrivate(chat_id)
    THEN Rejected("clear_memory", chat_id, from_user,
                  <<Out(chat_id, "private_chat_only")>>)
    ELSE IF from_user = None
    THEN Rejected("clear_memory", chat_id, from_user, <<>>)
    ELSE IF ~is_main_admin(AUTHORIZED_USERS, from_user[1])
    THEN Rejected("clear_memory", chat_id, from_user,
                  <<Out(chat_id, "main_admin_only_clear")>>)
    ELSE
    LET cleared == clear_old_messages_from_memory_all(chats)
    IN  Done(AUTHORIZED_USERS, user_last_command, cleared,
             Ran("clear_memory", chat_id, from_user,
                 <<[to |-> chat_id, kind |-> "memory_cleared",
                    before |-> get_memory_usage_stats(chats),
                    after |-> get_memory_usage_stats(cleared)]>>,
                 {"get_memory_usage_stats", "clear_old_messages_from_memory"},
                 NoAnalysis))

----------------------------------------------------------------------------
(* The bot: updates arrive one at a time and each handler runs to its end  *)
(* before the next update is taken.                                        *)

\* the authorized-user lists the configuration may hold at startup
StartupLists == {<<>>, <<1>>, <<1, 2>>, <<2, 1>>}

Init ==
    /\ AUTHORIZED_USERS \in StartupLists
    /\ startup = AUTHORIZED_USERS
    /\ ServicesIdle
    /\ user_last_command = <<>>
    /\ now = 0
    /\ chats = <<>>
    /\ db = <<>>
    /\ dbOK = TRUE
    /\ log = <<>>
    /\ last = [op |-> "init"]

\* a handler ran on an update: the state it leaves and its observation
Handle(chat_id, from_user, run) ==
    /\ UpdateOK(chat_id, from_user)
    /\ AUTHORIZED_USERS' = run.users
    /\ user_last_command' = run.ledger
    /\ chats' = run.chats
    /\ last' = run.obs
    /\ UNCHANGED <<now, db, Frozen>>

AnalyzeLast100(chat_id, from_user, pm_ok) ==
    Handle(chat_id, from_user,
           handle_analysis_command("last_100", chat_id, from_user, pm_ok))

AnalyzeLast24h(chat_id, from_user, pm_ok) ==
    Handle(chat_id, from_user,
           handle_analysis_command("last_24h", chat_id, from_user, pm_ok))

ChatStats(chat_id, from_user) ==
    Handle(chat_id, from_user, chat_stats_command(chat_id, from_user))

MyCommunication(chat_id, from_user, pm_ok) ==
    Handle(chat_id, from_user,
           my_communication_command(chat_id, from_user, pm_ok))

AnalyzeUser(chat_id, from_user, form, target, pm_ok) ==
    Handle(chat_id, from_user,
           analyze_user_command(chat_id, from_user, form, target, pm_ok))

AnalyzeUserAll(chat_id, from_user, form, target, pm_ok) ==
    Handle(chat_id, from_user,
           analyze_user_all_command(chat_id, from_user, form, target, pm_ok))

Conflict(chat_id, from_user, gone) ==
    Handle(chat_id, from_user, cmd_conflict(chat_id, from_user, gone))

Digest(chat_id, from_user, gone) ==
    Handle(chat_id, from_user, cmd_digest(chat_id, from_user, gone))

AddUser(chat_id, from_user, form, target, resolved) ==
    Handle(chat_id, from_user,
           add_user_command(chat_id, from_user, form, target, resolved))

RemoveUser(chat_id, from_user, form, target, resolved) ==
    Handle(chat_id, from_user,
           remove_user_command(chat_id, from_user, form, target, resolved))

ListUsers(chat_id, from_user) ==
    Handle(chat_id, from_user, list_users_command(chat_id, from_user))

ClearMemory(chat_id, from_user) ==
    Handle(chat_id, from_user, clear_memory_command(chat_id, from_user))

\* the updates explored: <<chat_id, from_user>> from a group chat with or
\* without a known sender, or from the sender's one-to-one chat
UpdatesOf(users) ==
    (Groups \X ({None} \cup {<<u>> : u \in users}))
    \cup {<<u, <<u>>>> : u \in users}

\* the ways a command names its target: <<form, target>>
TargetsOf(users) ==
    ({"reply", "handle", "id"} \X users) \cup {<<"missing", 0>>, <<"other", 0>>}

\* The analysis and statistics commands, with the clock.  The process starts
\* over a table that is empty or keeps a message of an earlier run; user 1
\* is the one member of the list and user 2 an outsider.
Members == <<1>>

KeptRows ==
    {<<>>} \cup
    {<<RowOf(Message(c, u, UsernameOf(u), TextOf(0), 0))>> :
         c \in Groups, u \in Authors}

MembersInit ==
    /\ AUTHORIZED_USERS = Members
    /\ startup = AUTHORIZED_USERS
    /\ ServicesIdle
    /\ user_last_command = <<>>
    /\ now = 0
    /\ chats = <<>>
    /\ db \in KeptRows
    /\ dbOK = TRUE
    /\ log = <<>>
    /\ last = [op |-> "init"]

Next ==
    \/ Tick
    \/ \E u \in UpdatesOf(Authors), pm_ok \in BOOLEAN :
           AnalyzeLast100(u[1], u[2], pm_ok)
    \/ \E u \in UpdatesOf(Authors), pm_ok \in BOOLEAN :
           AnalyzeLast24h(u[1], u[2], pm_ok)
    \/ \E u \in UpdatesOf(Authors) : ChatStats(u[1], u[2])
    \/ \E u \in UpdatesOf(Authors), pm_ok \in BOOLEAN :
           MyCommunication(u[1], u[2], pm_ok)
    \/ \E u \in UpdatesOf(Authors), t \in TargetsOf(Authors),
          pm_ok \in BOOLEAN : AnalyzeUser(u[1], u[2], t[1], t[2], pm_ok)
    \/ \E u \in UpdatesOf(Authors), t \in TargetsOf(Authors),
          pm_ok \in BOOLEAN : AnalyzeUserAll(u[1], u[2], t[1], t[2], pm_ok)
    \/ \E u \in UpdatesOf(Authors), gone \in BOOLEAN :
           Conflict(u[1], u[2], gone)
    \/ \E u \in UpdatesOf(Authors), gone \in BOOLEAN :
           Digest(u[1], u[2], gone)

Spec == MembersInit /\ [][Next]_vars

\* the administrative commands, with passive capture
AdminNext ==
    \/ \E c \in Groups, u \in Users : CacheGroupMessage(c, <<u>>)
    \/ \E c \in Groups : CacheGroupMessage(c, None)
    \/ \E u \in UpdatesOf(Users), t \in TargetsOf(Users),
          resolved \in BOOLEAN : AddUser(u[1], u[2], t[1], t[2], resolved)
    \/ \E u \in UpdatesOf(Users), t \in TargetsOf(Users),
          resolved \in BOOLEAN : RemoveUser(u[1], u[2], t[1], t[2], resolved)
    \/ \E u \in UpdatesOf(Users) : ListUsers(u[1], u[2])
    \/ \E u \in UpdatesOf(Users) : ClearMemory(u[1], u[2])

SpecAdmin == Init /\ [][AdminNext]_vars

\* /clear_memory among the messages the cache is given: the working sets
\* fill up to the cap and beyond it before the command comes
MemoryNext ==
    \/ \E c \in Groups, u \in Authors, t \in Stamps : AddMessage(c, u, t)
    \/ \E u \in UpdatesOf(Authors) : ClearMemory(u[1], u[2])

MemoryInit ==
    /\ AUTHORIZED_USERS = Members
    /\ startup = AUTHORIZED_USERS
    /\ ServicesIdle
    /\ user_last_command = <<>>
    /\ now = 0
    /\ chats = <<>>
    /\ db = <<>>
    /\ dbOK = TRUE
    /\ log = <<>>
    /\ last = [op |-> "init"]

SpecMemory == MemoryInit /\ [][MemoryNext]_vars

----------------------------------------------------------------------------
(* main.py : the dispatch layer.  An update carries a message with a chat, *)
(* a sender (None for a message without one) and a text (None for a        *)
(* message without text, such as a photo); a text is a sequence of tokens, *)
(* "/" being the character commands begin with.  The dispatcher gives the  *)
(* message to the first registered handler whose filter it passes.         *)

Commands == {"start", "help", "analyze_last_100", "analyze_last_24h",
             "add_user", "remove_user", "list_users", "clear_memory",
             "chat_stats", "my_communication", "analyze_user",
             "analyze_user_all", "conflict", "digest"}

\* the texts explored: none, the empty text, a plain text (with a "/" inside
\* it), every command, and a "/" text that is no command of the bot
MessageTexts ==
    {None, <<<<>>>>, <<<<"a", "/", "b">>>>, <<<<"/", "foo">>>>}
    \cup {<<<<"/", c>>>> : c \in Commands}

\* "if message.text": the text is there and not empty
TextTruthy(text) == text # None /\ text[1] # <<>>

\* message.text.startswith('/')
StartsWithSlash(text) == Len(text[1]) > 0 /\ text[1][1] = "/"

\* the Command(...) / CommandStart() filter: the command the text names
CommandOf(text) ==
    IF /\ TextTruthy(text)
       /\ Len(text[1]) >= 2
       /\ text[1][1] = "/"
       /\ text[1][2] \in Commands
    THEN <<text[1][2]>>
    ELSE None

\* F.text & F.chat.type.in_({GROUP, SUPERGROUP})
PassesCaptureFilter(chat_id, text) == TextTruthy(text) /\ chat_id \in Groups

\* start_command
start_command(chat_id, from_user) ==
    IF ~ChatIsPrivate(chat_id)
    THEN Rejected("start", chat_id, from_user, <<>>)
    ELSE Rejected("start", chat_id, from_user,
                  <<Out(chat_id, "welcome_text")>>)

\* help_command
help_command(chat_id, from_user) ==
    IF ~ChatIsPrivate(chat_id)
    THEN Rejected("help", chat_id, from_user, <<>>)
    ELSE Rejected("help", chat_id, from_user, <<Out(chat_id, "help_text")>>)

\* the handler registered for a command, run on the update; a gives how the
\* command names its target (form, target) and what the platform answers
\* (pm_ok, resolved)
CommandRun(command, chat_id, from_user, a) ==
    CASE command = "start" -> start_command(chat_id, from_user)
      [] command = "help" -> help_command(chat_id, from_user)
      [] command = "analyze_last_100" ->
             handle_analysis_command("last_100", chat_id, from_user, a.pm_ok)
      [] command = "analyze_last_24h" ->
             handle_analysis_command("last_24h", chat_id, from_user, a.pm_ok)
      [] command = "add_user" ->
             add_user_command(chat_id, from_user, a.form, a.target,
                              a.resolved)
      [] command = "remove_user" ->
             remove_user_command(chat_id, from_user, a.form, a.target,
                                 a.resolved)
      [] command = "list_users" -> list_users_command(chat_id, from_user)
      [] command = "clear_memory" -> clear_memory_command(chat_id, from_user)
      [] command = "chat_stats" -> chat_stats_command(chat_id, from_user)
      [] command = "my_communication" ->
             my_communication_command(chat_id, from_user, a.pm_ok)
      [] command = "analyze_user" ->
             analyze_user_command(chat_id, from_user, a.form, a.target,
                                  a.pm_ok)
      [] command = "analyze_user_all" ->
             analyze_user_all_command(chat_id, from_user, a.form, a.target,
                                      a.pm_ok)
      [] command = "conflict" -> cmd_conflict(chat_id, from_user, a.gone)
      [] command = "digest" -> cmd_digest(chat_id, from_user, a.gone)

\* a capture handler that does not skip texts beginning with "/"
cache_group_message_with_commands(chat_id, from_user, text) ==
    IF from_user = None \/ ~TextTruthy(text) THEN None
    ELSE <<Message(chat_id, from_user[1], UsernameOf(from_user[1]),
                   text[1], now)>>

\* cache_group_message: the message it gives to add_message, None when it
\* returns before
cache_group_message(chat_id, from_user, text) ==
    IF TextTruthy(text) /\ StartsWithSlash(text) THEN None
    ELSE IF from_user = None \/ ~TextTruthy(text) THEN None
    ELSE <<Message(chat_id, from_user[1], UsernameOf(from_user[1]),
                   text[1], now)>>

\* the arguments explored with a command: each form of target with the
\* platform answering, one @handle it does not answer for, and no target
TargetArgs ==
    {[form |-> f, target |-> t, pm_ok |-> TRUE, resolved |-> TRUE] :
         f \in {"reply", "handle", "id"}, t \in Authors}
    \cup {[form |-> "handle", target |-> 1, pm_ok |-> FALSE,
           resolved |-> FALSE],
          [form |-> "missing", target |-> 0, pm_ok |-> TRUE,
           resolved |-> TRUE]}

DeliveryArgs ==
    {[form |-> "missing", target |-> 0, pm_ok |-> b, resolved |-> b] :
         b \in BOOLEAN}

NoArgs == {[form |-> "missing", target |-> 0, pm_ok |-> TRUE,
            resolved |-> TRUE]}

\* the placeholder still there, or gone, when the handler deletes it
PlaceholderArgs ==
    {[form |-> "missing", target |-> 0, pm_ok |-> TRUE, resolved |-> TRUE,
      gone |-> b] : b \in BOOLEAN}

ArgsOf(command) ==
    IF command \in {"analyze_user", "analyze_user_all", "add_user",
                    "remove_user"}
    THEN TargetArgs
    ELSE IF command \in {"analyze_last_100", "analyze_last_24h",
                         "my_communication"}
    THEN DeliveryArgs
    ELSE IF command \in {"conflict", "digest"}
    THEN PlaceholderArgs
    ELSE NoArgs

\* the dispatcher took an update whose text is a command of the bot
DispatchCommand(chat_id, from_user, text, a) ==
    /\ UpdateOK(chat_id, from_user)
    /\ CommandOf(text) # None
    /\ a \in ArgsOf(CommandOf(text)[1])
    /\ LET run == CommandRun(CommandOf(text)[1], chat_id, from_user, a)
       IN  /\ AUTHORIZED_USERS' = run.users
           /\ user_last_command' = run.ledger
           /\ chats' = run.chats
           /\ last' = run.obs @@ [text |-> text]
    /\ UNCHANGED <<now, db, Frozen>>

\* the dispatcher took an update that is no command and passes the filter
\* of cache_group_message
DispatchMessage(chat_id, from_user, text) ==
    /\ UpdateOK(chat_id, from_user)
    /\ CommandOf(text) = None
    /\ PassesCaptureFilter(chat_id, text)
    /\ LET captured == cache_group_message(chat_id, from_user, text)
       IN  IF captured = None
           THEN /\ last' = Ran("message", chat_id, from_user, <<>>, {},
                               NoAnalysis) @@ [text |-> text]
                /\ UNCHANGED <<chats, db, log>>
           ELSE /\ Len(log) < MaxObserved
                /\ chats' = add_message_memory(chats, captured[1])
                /\ db' = add_message_durable(db, dbOK, captured[1])
                /\ log' = Append(log, captured[1])
                /\ last' = Ran("message", chat_id, from_user, <<>>,
                               {"add_message", "get_chat_stats"}, NoAnalysis)
                           @@ [text |-> text]
    /\ UNCHANGED <<AUTHORIZED_USERS, user_last_command, now, dbOK, startup,
                   Services>>

\* the dispatcher took an update no handler is registered for
DispatchUnhandled(chat_id, from_user, text) ==
    /\ UpdateOK(chat_id, from_user)
    /\ CommandOf(text) = None
    /\ ~PassesCaptureFilter(chat_id, text)
    /\ last' = Ran("unhandled", chat_id, from_user, <<>>, {}, NoAnalysis)
               @@ [text |-> text]
    /\ UNCHANGED <<AUTHORIZED_USERS, user_last_command, now, chats, db,
                   Frozen>>

DispatchNext ==
    \/ \E u \in UpdatesOf(Authors), text \in MessageTexts :
           \E a \in ArgsOf(IF CommandOf(text) = None THEN "start"
                           ELSE CommandOf(text)[1]) :
               DispatchCommand(u[1], u[2], text, a)
    \/ \E u \in UpdatesOf(Authors), text \in MessageTexts :
           DispatchMessage(u[1], u[2], text)
    \/ \E u \in UpdatesOf(Authors), text \in MessageTexts :
           DispatchUnhandled(u[1], u[2], text)

\* every update the platform may deliver, dispatched one after another, from
\* an empty table; the list holds user 1 alone at startup
DispatchInit ==
    /\ AUTHORIZED_USERS = Members
    /\ startup = AUTHORIZED_USERS
    /\ ServicesIdle
    /\ user_last_command = <<>>
    /\ now = 0
    /\ chats = <<>>
    /\ db = <<>>
    /\ dbOK = TRUE
    /\ log = <<>>
    /\ last = [op |-> "init"]

SpecDispatch == DispatchInit /\ [][DispatchNext]_vars

\* the same updates for a process started with AUTHORIZED_USERS unset: the
\* list is empty at startup
UnconfiguredInit ==
    /\ AUTHORIZED_USERS = <<>>
    /\ startup = AUTHORIZED_USERS
    /\ ServicesIdle
    /\ user_last_command = <<>>
    /\ now = 0
    /\ chats = <<>>
    /\ db = <<>>
    /\ dbOK = TRUE
    /\ log = <<>>
    /\ last = [op |-> "init"]

SpecUnconfigured == UnconfiguredInit /\ [][DispatchNext]_vars

----------------------------------------------------------------------------
(* main.py : safe_send_message and safe_edit_message.  A text is the        *)
(* sequence of its characters; answers holds what the platform answers to   *)
(* the first and to the second attempt.                                     *)

\* the characters strip_markdown_formatting unescapes after a backslash
ESCAPABLE ==
    {"_", "*", "[", "]", "(", ")", "~", "backtick", ">", "#", "+", "-", "=",
     "|", "{", "}", ".", "!"}

\* the characters of the markers "**", "__", "*", "_" and the backtick
MARKERS == {"*", "_", "backtick"}

\* re.sub(r"\\([_*...])", r"\1", text): non-overlapping, left to right
RECURSIVE Unescape(_)
Unescape(text) ==
    IF text = <<>> THEN <<>>
    ELSE IF text[1] = "\\" /\ Len(text) >= 2 /\ text[2] \in ESCAPABLE
    THEN <<text[2]>> \o Unescape(SubSeq(text, 3, Len(text)))
    ELSE <<text[1]>> \o Unescape(Tail(text))

IsNoMarker(char) == char \notin MARKERS

\* strip_markdown_formatting(text)
strip_markdown_formatting(text) == SelectSeq(Unescape(text), IsNoMarker)

\* one call of the platform: the text and the parse_mode it is given
Attempt(text, parse_mode) == [text |-> text, parse_mode |-> parse_mode]

\* the answers that aiogram raises as TelegramBadRequest
BAD_REQUESTS == {"cant_parse", "not_found", "bad_request"}

\* the first call of both functions: plain when Config.PLAIN_TEXT_OUTPUT
FirstAttempt(PLAIN_TEXT_OUTPUT, parse_mode, text) ==
    IF PLAIN_TEXT_OUTPUT
    THEN Attempt(strip_markdown_formatting(text), None)
    ELSE Attempt(text, parse_mode)

\* the second call: parse_mode popped, the text of the first call stripped
Retry(first) == Attempt(strip_markdown_formatting(first.text), None)

\* a function that retries after every TelegramBadRequest
safe_send_message_retrying_all(PLAIN_TEXT_OUTPUT, parse_mode, text, answers) ==
    LET first == FirstAttempt(PLAIN_TEXT_OUTPUT, parse_mode, text)
    IN  IF answers[1] \in BAD_REQUESTS
        THEN [attempts |-> <<first, Retry(first)>>,
              raised |-> answers[2] # "ok", result |-> "message"]
        ELSE [attempts |-> <<first>>, raised |-> answers[1] # "ok",
              result |-> "message"]

\* safe_send_message: [attempts, raised, result]
safe_send_message(PLAIN_TEXT_OUTPUT, parse_mode, text, answers) ==
    LET first == FirstAttempt(PLAIN_TEXT_OUTPUT, parse_mode, text)
    IN  IF answers[1] = "cant_parse"
        THEN [attempts |-> <<first, Retry(first)>>,
              raised |-> answers[2] # "ok", result |-> "message"]
        ELSE [attempts |-> <<first>>, raised |-> answers[1] # "ok",
              result |-> "message"]

\* safe_edit_message, attempt by attempt: 'message to edit not found' ends
\* it with None
edit_text_safely(PLAIN_TEXT_OUTPUT, parse_mode, text, answers) ==
    LET first == FirstAttempt(PLAIN_TEXT_OUTPUT, parse_mode, text)
    IN  IF answers[1] = "not_found"
        THEN [attempts |-> <<first>>, raised |-> FALSE, result |-> "None"]
        ELSE IF answers[1] = "cant_parse"
        THEN [attempts |-> <<first, Retry(first)>>,
              raised |-> answers[2] # "ok", result |-> "message"]
        ELSE [attempts |-> <<first>>, raised |-> answers[1] # "ok",
              result |-> "message"]

\* what the platform answers to a call: it takes it, it cannot parse the
\* entities, the message is not there, another bad request, an error that
\* is no TelegramBadRequest
Answers == {"ok", "cant_parse", "not_found", "bad_request", "forbidden"}

Characters == {"a", "*", "_", "\\", "."}

MaxText == 3

OutboundTexts == UNION {[1..n -> Characters] : n \in 0..MaxText}

ParseModes == {None, <<"Markdown">>}

\* the calls explored: the function, the flag of the configuration and the
\* arguments, with the answers the platform is going to give
OutboundCalls ==
    [op : {"call"}, function : {"safe_send_message", "safe_edit_message"},
     PLAIN_TEXT_OUTPUT : BOOLEAN, parse_mode : ParseModes,
     text : OutboundTexts, answers : Answers \X Answers]

Outbound(done) ==
    /\ last' = [op |-> last.function,
                PLAIN_TEXT_OUTPUT |-> last.PLAIN_TEXT_OUTPUT,
                parse_mode |-> last.parse_mode, text |-> last.text,
                answers |-> last.answers, attempts |-> done.attempts,
                raised |-> done.raised, result |-> done.result]
    /\ UNCHANGED <<AUTHORIZED_USERS, user_last_command, now, chats, db,
                   Frozen>>

SafeSendMessage ==
    /\ last.op = "call"
    /\ last.function = "safe_send_message"
    /\ Outbound(safe_send_message(last.PLAIN_TEXT_OUTPUT, last.parse_mode,
                                  last.text, last.answers))

SafeEditMessage ==
    /\ last.op = "call"
    /\ last.function = "safe_edit_message"
    /\ Outbound(edit_text_safely(last.PLAIN_TEXT_OUTPUT, last.parse_mode,
                                 last.text, last.answers))

OutboundNext == SafeSendMessage \/ SafeEditMessage

\* one call of either function, with every flag, text and pair of answers
OutboundInit ==
    /\ AUTHORIZED_USERS = Members
    /\ startup = AUTHORIZED_USERS
    /\ ServicesIdle
    /\ user_last_command = <<>>
    /\ now = 0
    /\ chats = <<>>
    /\ db = <<>>
    /\ dbOK = TRUE
    /\ log = <<>>
    /\ last \in OutboundCalls

SpecOutbound == OutboundInit /\ [][OutboundNext]_vars

----------------------------------------------------------------------------
(* main.py : handlers in flight together.  The dispatcher runs every        *)
(* handler as a coroutine of one event loop, so a handler runs from one      *)
(* await to the next without another handler running in between.  In        *)
(* handle_analysis_command every await is a send or the Analyzer call; the  *)
(* checks, check_rate_limit and the Store reads come before the first one.  *)

\* a handler that calls generate_content itself keeps the event loop for as
\* long as the call takes
HoldsLoop_calling_directly(step) == step.action = "call"

\* whether a handler suspended at a step keeps the event loop: a send awaits
\* the platform's answer, and _call_gemini awaits run_in_executor, which
\* makes the generate_content call on a thread of the default executor
HoldsLoop(step) == FALSE

\* the step a started task is suspended at, None for a task that has not
\* started or has ended
AwaitedBy(task) ==
    IF task.run # None /\ task.at < Len(task.steps)
    THEN <<task.steps[task.at + 1]>> ELSE None

\* the tasks suspended in the Analyzer call
AwaitingLLM ==
    {id \in DOMAIN tasks :
        /\ AwaitedBy(tasks[id]) # None
        /\ AwaitedBy(tasks[id])[1].action = "call"}

\* the event loop can run a callback: no task other than those of the set
\* keeps it
LoopFree(but) ==
    \A id \in DOMAIN tasks \ but :
        AwaitedBy(tasks[id]) # None => ~HoldsLoop(AwaitedBy(tasks[id])[1])

\* the awaits of a run, in order
StepsOf(obs) ==
    IF "steps" \in DOMAIN obs THEN obs.steps
    ELSE [i \in DOMAIN obs.sent |-> Sent(obs.sent[i])]

\* the dispatcher took an update with /analyze_last_100 or /analyze_last_24h
\* and made a task of its handler
Arrive(analysis_type, chat_id, from_user) ==
    /\ Len(tasks) < MaxInFlight
    /\ LoopFree({})
    /\ tasks' = Append(tasks, [analysis_type |-> analysis_type,
                               chat_id |-> chat_id, from_user |-> from_user,
                               run |-> None, steps |-> <<>>, at |-> 0,
                               checked_at |-> 0, ingested |-> 0,
                               awaiting |-> {}])
    /\ last' = [op |-> "arrive", task |-> Len(tasks) + 1]
    /\ UNCHANGED <<AUTHORIZED_USERS, user_last_command, now, chats, db, dbOK,
                   log, startup, GEMINI_API_KEY, ai_analyzer, network>>

\* a handler that reads the ledger and leaves the assignment of line 73 out
Start_without_update(id, pm_ok) ==
    /\ id \in DOMAIN tasks
    /\ tasks[id].run = None
    /\ LoopFree({})
    /\ LET task == tasks[id]
           run == handle_analysis_command(task.analysis_type, task.chat_id,
                                          task.from_user, pm_ok)
       IN  /\ AUTHORIZED_USERS' = run.users
           /\ user_last_command' = user_last_command
           /\ chats' = run.chats
           /\ tasks' = [tasks EXCEPT ![id].run = <<run.obs>>,
                                     ![id].steps = StepsOf(run.obs),
                                     ![id].checked_at = now,
                                     ![id].ingested = Len(log),
                                     ![id].awaiting = AwaitingLLM]
           /\ last' = [op |-> "start", task |-> id]
    /\ UNCHANGED <<now, db, dbOK, log, startup, GEMINI_API_KEY, ai_analyzer,
                   network>>

\* the event loop runs a task for the first time: the handler runs up to
\* its first await, through the chat-type and authorization checks,
\* check_rate_limit and the Store reads.  The task keeps how many messages
\* had been ingested and which tasks were in the Analyzer call at that time.
Start(id, pm_ok) ==
    /\ id \in DOMAIN tasks
    /\ tasks[id].run = None
    /\ LoopFree({})
    /\ LET task == tasks[id]
           run == handle_analysis_command(task.analysis_type, task.chat_id,
                                          task.from_user, pm_ok)
       IN  /\ AUTHORIZED_USERS' = run.users
           /\ user_last_command' = run.ledger
           /\ chats' = run.chats
           /\ tasks' = [tasks EXCEPT ![id].run = <<run.obs>>,
                                     ![id].steps = StepsOf(run.obs),
                                     ![id].checked_at = now,
                                     ![id].ingested = Len(log),
                                     ![id].awaiting = AwaitingLLM]
           /\ last' = [op |-> "start", task |-> id]
    /\ UNCHANGED <<now, db, dbOK, log, startup, GEMINI_API_KEY, ai_analyzer,
                   network>>

\* a handler that reads the window again when it comes to the Analyzer call
Resume_reading_again(id) ==
    /\ id \in DOMAIN tasks
    /\ tasks[id].run # None
    /\ tasks[id].at < Len(tasks[id].steps)
    /\ LoopFree({id})
    /\ LET task == tasks[id]
           calling == /\ task.at + 2 <= Len(task.steps)
                      /\ task.steps[task.at + 2].action = "call"
           messages == IF task.analysis_type = "last_100"
                       THEN get_last_n_messages(chats, db, dbOK, task.chat_id,
                                                LAST_100)
                       ELSE get_messages_since(chats, db, dbOK, task.chat_id,
                                               now - DayTicks)
       IN  tasks' = [tasks EXCEPT
                        ![id].at = @ + 1,
                        ![id].run =
                            IF calling
                            THEN <<[@[1] EXCEPT !.analysis =
                                       Analyze("analyze_messages", messages)]>>
                            ELSE @]
    /\ last' = [op |-> "resume", task |-> id]
    /\ UNCHANGED <<AUTHORIZED_USERS, user_last_command, now, chats, db, dbOK,
                   log, startup, GEMINI_API_KEY, ai_analyzer, network>>

\* the await a task is suspended at returns and the handler runs to its next
\* await, or to its end
Resume(id) ==
    /\ id \in DOMAIN tasks
    /\ tasks[id].run # None
    /\ tasks[id].at < Len(tasks[id].steps)
    /\ LoopFree({id})
    /\ tasks' = [tasks EXCEPT ![id].at = @ + 1]
    /\ last' = [op |-> "resume", task |-> id]
    /\ UNCHANGED <<AUTHORIZED_USERS, user_last_command, now, chats, db, dbOK,
                   log, startup, GEMINI_API_KEY, ai_analyzer, network>>

ConcurrentNext ==
    \/ \E analysis_type \in {"last_100", "last_24h"}, chat_id \in Groups,
          user_id \in Authors : Arrive(analysis_type, chat_id, <<user_id>>)
    \/ \E id \in 1..MaxInFlight, pm_ok \in BOOLEAN : Start(id, pm_ok)
    \/ \E id \in 1..MaxInFlight : Resume(id)
    \/ Tick

\* both authors are on the list and one message may be stored
ConcurrentInit ==
    /\ AUTHORIZED_USERS = <<1, 2>>
    /\ startup = AUTHORIZED_USERS
    /\ ServicesIdle
    /\ user_last_command = <<>>
    /\ now = 0
    /\ chats = <<>>
    /\ db \in KeptRows
    /\ dbOK = TRUE
    /\ log = <<>>
    /\ last = [op |-> "init"]

SpecConcurrent == ConcurrentInit /\ [][ConcurrentNext]_vars

\* the dispatcher runs cache_group_message for a group message: the handler
\* has no await, so it runs to its end once the event loop takes it
Capture(chat_id, from_user) ==
    /\ LoopFree({})
    /\ CacheGroupMessage(chat_id, from_user)

\* commands and group messages delivered to one chat while handlers are in
\* flight, within one tick of the clock
OverlapNext ==
    \/ \E analysis_type \in {"last_100", "last_24h"}, user_id \in Authors :
           Arrive(analysis_type, ConversationChat, <<user_id>>)
    \/ \E id \in 1..MaxInFlight, pm_ok \in BOOLEAN : Start(id, pm_ok)
    \/ \E id \in 1..MaxInFlight : Resume(id)
    \/ \E user_id \in Authors : Capture(ConversationChat, <<user_id>>)

SpecOverlap == ConcurrentInit /\ [][OverlapNext]_vars

----------------------------------------------------------------------------
(* main.py : /add_user and /remove_user in flight together.  The awaits of  *)
(* the two handlers are bot.get_chat_member, which the @username form makes *)
(* between the administrator check and the list operation, and the answer   *)
(* sent after the list operation; add_authorized_user and                   *)
(* remove_authorized_user have no await.                                    *)

\* the list operation of a command
ListOperation(op, users, target) ==
    IF op = "add_user" THEN add_authorized_user(users, target)
    ELSE remove_authorized_user(users, target)

\* the forms /add_user and /remove_user are sent in: in reply to a message
\* of the target, with an @username, with a numeric id
ManageForms == {"reply", "handle", "id"}

\* the tasks suspended in get_chat_member
Resolving ==
    {id \in DOMAIN tasks : tasks[id].awaits = "get_chat_member"}

\* the dispatcher took /add_user or /remove_user from a group chat and ran
\* its handler to the first await: the answer to a caller who is not the
\* main administrator, get_chat_member for an @username, and for the other
\* forms the answer that follows the list operation
ManageArrives(op, from_user, form, target) ==
    /\ Len(tasks) < MaxInFlight
    /\ LET admin == is_main_admin(AUTHORIZED_USERS, from_user[1])
           change == ListOperation(op, AUTHORIZED_USERS, target)
           acts == admin /\ form # "handle"
       IN  /\ AUTHORIZED_USERS' = IF acts THEN change.users
                                  ELSE AUTHORIZED_USERS
           /\ tasks' = Append(tasks,
                  [op |-> op, from_user |-> from_user, form |-> form,
                   target |-> target,
                   awaits |-> IF admin /\ form = "handle"
                              THEN "get_chat_member" ELSE "answer",
                   report |-> IF ~admin THEN "denied"
                              ELSE IF form = "handle" THEN "none"
                              ELSE IF change.ok THEN "done" ELSE "refused",
                   together |-> {}])
           /\ last' = [op |-> op, task |-> Len(tasks) + 1, target |-> target,
                       acted |-> acts, ok |-> acts /\ change.ok]
    /\ UNCHANGED <<user_last_command, now, chats, db, dbOK, log, startup,
                   GEMINI_API_KEY, ai_analyzer, network>>

\* get_chat_member returns to a suspended handler: with the user it found,
\* and the handler runs the list operation on the list as it is now, up to
\* its answer; or by raising, and the handler answers that it found no user
ChatMemberReturns(id, resolved) ==
    /\ id \in Resolving
    /\ LET task == tasks[id]
           change == ListOperation(task.op, AUTHORIZED_USERS, task.target)
       IN  /\ AUTHORIZED_USERS' = IF resolved THEN change.users
                                  ELSE AUTHORIZED_USERS
           /\ tasks' = [tasks EXCEPT
                            ![id].awaits = "answer",
                            ![id].report = IF ~resolved THEN "user_not_found"
                                           ELSE IF change.ok THEN "done"
                                           ELSE "refused",
                            ![id].together = Resolving \ {id}]
           /\ last' = [op |-> task.op, task |-> id, target |-> task.target,
                       acted |-> resolved, ok |-> resolved /\ change.ok]
    /\ UNCHANGED <<user_last_command, now, chats, db, dbOK, log, startup,
                   GEMINI_API_KEY, ai_analyzer, network>>

\* the answer of a handler is sent and the handler ends
Answered(id) ==
    /\ id \in DOMAIN tasks
    /\ tasks[id].awaits = "answer"
    /\ tasks' = [tasks EXCEPT ![id].awaits = "ended"]
    /\ last' = [op |-> "answered", task |-> id, acted |-> FALSE]
    /\ UNCHANGED <<AUTHORIZED_USERS, user_last_command, now, chats, db, dbOK,
                   log, startup, GEMINI_API_KEY, ai_analyzer, network>>

ManagingNext ==
    \/ \E op \in {"add_user", "remove_user"}, user_id \in Users,
          form \in ManageForms, target \in Users :
           ManageArrives(op, <<user_id>>, form, target)
    \/ \E id \in 1..MaxInFlight, resolved \in BOOLEAN :
           ChatMemberReturns(id, resolved)
    \/ \E id \in 1..MaxInFlight : Answered(id)

\* the list of the configuration, with no id twice
ManagingInit ==
    /\ AUTHORIZED_USERS \in StartupLists
    /\ startup = AUTHORIZED_USERS
    /\ ServicesIdle
    /\ user_last_command = <<>>
    /\ now = 0
    /\ chats = <<>>
    /\ db = <<>>
    /\ dbOK = TRUE
    /\ log = <<>>
    /\ last = [op |-> "init", acted |-> FALSE]

SpecManaging == ManagingInit /\ [][ManagingNext]_vars

----------------------------------------------------------------------------
(* api/webhook.py : the HTTP handler in front of the dispatcher *)

\* what the Content-Length header of a request can be: missing, "0", the
\* length of the body, or text int() cannot read
ContentLengths == {"absent", "zero", "length", "not_a_number"}

\* what the bytes of a POST body can be: an update of the platform, JSON
\* that is no update (Update(**update_data) raises), text json.loads
\* rejects, bytes that are no UTF-8
Bodies == {"update", "not_an_update", "malformed_json", "not_utf8"}

Event(name) == [event |-> name]

\* _send_response: status line, headers and the message as the body
_send_response(status_code, message) ==
    [event |-> "send_response", status |-> status_code, message |-> message]

\* the four answers of do_POST
EMPTY_BODY == _send_response(400, "Empty body")
INVALID_JSON == _send_response(400, "Invalid JSON")
INTERNAL_ERROR == _send_response(500, "Internal error")
OK == _send_response(200, "OK")

\* do_POST answering before it hands the update to the dispatcher
do_POST_answer_first(content_length, body, raised) ==
    IF content_length = "length" /\ body = "update" /\ ~raised
    THEN <<Event("read"), Event("handle_update"), OK,
           Event("feed_update"), Event("dispatch_completed")>>
    ELSE IF content_length \in {"absent", "zero"}
    THEN <<EMPTY_BODY>>
    ELSE IF content_length = "length" /\ body = "malformed_json"
    THEN <<Event("read"), INVALID_JSON>>
    ELSE <<INTERNAL_ERROR>>

\* do_POST: the events of one POST request, in order. raised tells whether
\* feed_update raises once it is reached.
do_POST(content_length, body, raised) ==
    IF content_length = "not_a_number"
    THEN <<INTERNAL_ERROR>>
    ELSE IF content_length \in {"absent", "zero"}
    THEN <<EMPTY_BODY>>
    ELSE IF body = "not_utf8"
    THEN <<Event("read"), INTERNAL_ERROR>>
    ELSE IF body = "malformed_json"
    THEN <<Event("read"), INVALID_JSON>>
    ELSE IF body = "not_an_update"
    THEN <<Event("read"), Event("handle_update"),
           INTERNAL_ERROR>>
    ELSE IF raised
    THEN <<Event("read"), Event("handle_update"), Event("feed_update"),
           INTERNAL_ERROR>>
    ELSE <<Event("read"), Event("handle_update"), Event("feed_update"),
           Event("dispatch_completed"), OK>>

\* do_GET: the liveness answer
do_GET == <<_send_response(200, "Telegram Bot Webhook is active")>>

\* dp.feed_update: the update goes to the first handler whose filter it
\* passes; the state it leaves and what the handler did
feed_update(chat_id, from_user, text, a) ==
    IF CommandOf(text) # None
    THEN LET run == CommandRun(CommandOf(text)[1], chat_id, from_user, a)
         IN  [users |-> run.users, ledger |-> run.ledger,
              chats |-> run.chats, db |-> db, log |-> log,
              obs |-> run.obs @@ [text |-> text]]
    ELSE IF PassesCaptureFilter(chat_id, text)
    THEN LET captured == cache_group_message(chat_id, from_user, text)
         IN  IF captured = None
             THEN [users |-> AUTHORIZED_USERS, ledger |-> user_last_command,
                   chats |-> chats, db |-> db, log |-> log,
                   obs |-> Ran("message", chat_id, from_user, <<>>, {},
                               NoAnalysis) @@ [text |-> text]]
             ELSE [users |-> AUTHORIZED_USERS, ledger |-> user_last_command,
                   chats |-> add_message_memory(chats, captured[1]),
                   db |-> add_message_durable(db, dbOK, captured[1]),
                   log |-> Append(log, captured[1]),
                   obs |-> Ran("message", chat_id, from_user, <<>>,
                               {"add_message", "get_chat_stats"},
                               NoAnalysis) @@ [text |-> text]]
    ELSE [users |-> AUTHORIZED_USERS, ledger |-> user_last_command,
          chats |-> chats, db |-> db, log |-> log,
          obs |-> Ran("unhandled", chat_id, from_user, <<>>, {}, NoAnalysis)
                  @@ [text |-> text]]

\* the texts of the updates posted to the webhook
WebhookTexts == {None, <<<<"a", "/", "b">>>>, <<<<"/", "start">>>>,
                 <<<<"/", "conflict">>>>, <<<<"/", "add_user">>>>,
                 <<<<"/", "analyze_last_100">>>>}

GetAnswered == [op |-> "http", method |-> "GET", events |-> do_GET]

\* a GET request
WebhookGet ==
    /\ last' = GetAnswered
    /\ UNCHANGED <<AUTHORIZED_USERS, user_last_command, now, chats, db,
                   Frozen>>

\* a POST request do_POST answers without reaching the dispatcher
WebhookRefuses(content_length, body) ==
    /\ ~(content_length = "length" /\ body = "update")
    /\ last' = [op |-> "http", method |-> "POST",
                content_length |-> content_length, body |-> body,
                events |-> do_POST(content_length, body, FALSE)]
    /\ UNCHANGED <<AUTHORIZED_USERS, user_last_command, now, chats, db,
                   Frozen>>

\* a POST request carrying an update. The handler that takes it sends its
\* first message outside any try block, so when the platform refuses that
\* message (reply_ok FALSE) the exception leaves feed_update; what the
\* handler changed before that send stays changed.
WebhookDispatches(chat_id, from_user, text, a, reply_ok) ==
    /\ UpdateOK(chat_id, from_user)
    /\ CommandOf(text) # None => a \in ArgsOf(CommandOf(text)[1])
    /\ LET fed == feed_update(chat_id, from_user, text, a)
           raised == ~reply_ok /\ fed.obs.sent # <<>>
       IN  /\ Len(fed.log) > Len(log) => Len(log) < MaxObserved
           /\ reply_ok \/ raised
           /\ AUTHORIZED_USERS' = fed.users
           /\ user_last_command' = fed.ledger
           /\ chats' = fed.chats
           /\ db' = fed.db
           /\ log' = fed.log
           /\ last' = [op |-> "http", method |-> "POST",
                       content_length |-> "length", body |-> "update",
                       events |-> do_POST("length", "update", raised),
                       update |-> IF raised
                                  THEN [op |-> fed.obs.op,
                                        chat_id |-> chat_id,
                                        from_user |-> from_user,
                                        text |-> text, raised |-> TRUE]
                                  ELSE fed.obs]
    /\ UNCHANGED <<now, dbOK, startup, Services>>

\* the arguments of the commands posted to the webhook: a target is named by
\* its id, or not at all
WebhookArgs(text) ==
    {a \in ArgsOf(IF CommandOf(text) = None THEN "start"
                  ELSE CommandOf(text)[1]) : a.form \in {"id", "missing"}}

WebhookNext ==
    \/ WebhookGet
    \/ \E content_length \in ContentLengths, body \in Bodies :
           WebhookRefuses(content_length, body)
    \/ \E u \in UpdatesOf(Authors), text \in WebhookTexts, reply_ok \in BOOLEAN :
           \E a \in WebhookArgs(text) :
               WebhookDispatches(u[1], u[2], text, a, reply_ok)

\* requests arriving one after another at a freshly started bot
SpecWebhook == DispatchInit /\ [][WebhookNext]_vars

----------------------------------------------------------------------------
(* ai_analyzer.py : CommunicationAnalyzer *)

\* a string is a sequence of tokens; the strings the analyzer makes for the
\* user begin with one of two glyphs
ERROR_GLYPH == "\\u274c"
WARNING_GLYPH == "\\u26a0"
JSON_OBJECT == <<"{", "analysis", "}">>
JSON_LIST == <<"[", "]">>
PROSE == <<"the", "chat", "is", "calm">>
MODEL_NAME == "models/gemini-2.5-flash"

IsDiagnostic(s) == s # <<>> /\ s[1] \in {ERROR_GLYPH, WARNING_GLYPH}

\* the keys the environment can hold: none, one the service refuses, one
\* it accepts
ApiKeys == {None, <<"invalid">>, <<"valid">>}

Responded(text) == [kind |-> "text", text |-> text]
Blocked(block_reason) == [kind |-> "blocked", block_reason |-> block_reason]
Raised(message) == [kind |-> "raises", message |-> message]

\* what model.generate_content of the client library can do: answer with a
\* text, answer with a blocked prompt, or raise; message is the set of the
\* phrases _call_gemini looks for that str(e) contains. Without a key the
\* service accepts, the call can only raise.
AnyOutcome ==
    {Responded(JSON_OBJECT), Responded(JSON_LIST), Responded(PROSE),
     Responded(<<>>), Blocked("SAFETY"), Raised({"404", "model"}),
     Raised({"API key"}), Raised({"quota"}), Raised({"rate limit"}),
     Raised({"401"}), Raised({"429"}), Raised({})}
KeyRefused == {Raised({"API key"})}
NoKey == {Raised({"API key"}), Raised({})}

GenerateOutcomes(api_key) ==
    IF api_key = <<"valid">> THEN AnyOutcome
    ELSE IF api_key = <<"invalid">> THEN KeyRefused
    ELSE NoKey

\* what iterating genai.list_models() can do
Listings == {"listed", "listed_without_model", "raises"}
ListOutcomes(api_key) == IF api_key = <<"valid">> THEN Listings ELSE {"raises"}

Request(call, during) == [call |-> call, during |-> during]

LIMIT_PHRASES == {"quota", "rate limit"}
LIST_MODELS == Request("list_models", "construction")

\* _call_gemini: builds the model, calls model.generate_content in the
\* executor and turns what comes back into a string; calls counts the
\* calls of generate_content
_call_gemini(api_key, outcome) ==
    [calls |-> 1,
     text |->
        IF outcome.kind = "raises"
        THEN IF {"404", "model"} \subseteq outcome.message
             THEN <<ERROR_GLYPH, "model_not_found">>
             ELSE IF "API key" \in outcome.message
             THEN <<ERROR_GLYPH, "api_key">>
             ELSE IF \E phrase \in LIMIT_PHRASES : phrase \in outcome.message
             THEN <<ERROR_GLYPH, "quota">>
             ELSE <<ERROR_GLYPH, "ai_error">>
        ELSE IF outcome.kind = "blocked"
        THEN <<WARNING_GLYPH, "blocked", outcome.block_reason>>
        ELSE outcome.text]

\* json.loads reading any text as an object
json_loads_lenient(text) == <<[type |-> "dict"]>>

\* json.loads: None when the text is no JSON (JSONDecodeError), else the
\* value read
json_loads(text) ==
    IF text = JSON_OBJECT THEN <<[type |-> "dict"]>>
    ELSE IF text = JSON_LIST THEN <<[type |-> "list"]>>
    ELSE None

\* the shared part without its except clauses
Analysed_unguarded(api_key, outcome, report) ==
    LET response_content == _call_gemini(api_key, outcome)
    IN  IF response_content.text = <<>>
        THEN [result |-> <<ERROR_GLYPH, "empty_answer">>,
              response |-> response_content.text,
              calls |-> response_content.calls, parsed |-> FALSE,
              raised |-> FALSE]
        ELSE LET analysis_json == json_loads(response_content.text)
             IN  [result |-> IF analysis_json = None
                             THEN <<ERROR_GLYPH, "cannot_parse">>
                             ELSE IF analysis_json[1].type # "dict"
                             THEN <<ERROR_GLYPH, "analysis_failed">>
                             ELSE report,
                  response |-> response_content.text,
                  calls |-> response_content.calls, parsed |-> TRUE,
                  raised |-> analysis_json = None]

\* the part analyze_messages and analyze_user_communication share: the
\* call, the test for an empty answer, json.loads and the formatting
Analysed(api_key, outcome, report) ==
    LET response_content == _call_gemini(api_key, outcome)
    IN  IF response_content.text = <<>>
        THEN [result |-> <<ERROR_GLYPH, "empty_answer">>,
              response |-> response_content.text,
              calls |-> response_content.calls, parsed |-> FALSE,
              raised |-> FALSE]
        ELSE LET analysis_json == json_loads(response_content.text)
             IN  [result |-> IF analysis_json = None
                             THEN <<ERROR_GLYPH, "cannot_parse">>
                             ELSE IF analysis_json[1].type # "dict"
                             THEN <<ERROR_GLYPH, "analysis_failed">>
                             ELSE report,
                  response |-> response_content.text,
                  calls |-> response_content.calls, parsed |-> TRUE,
                  raised |-> FALSE]

\* an analysis that makes a call where the code returns at once
NotAnalysed_calling(why) ==
    [result |-> <<ERROR_GLYPH, why>>, response |-> None, calls |-> 1,
     parsed |-> FALSE, raised |-> FALSE]

\* the return before the try block: no call, the fixed string
NotAnalysed(why) ==
    [result |-> <<ERROR_GLYPH, why>>, response |-> None, calls |-> 0,
     parsed |-> FALSE, raised |-> FALSE]

\* analyze_messages
analyze_messages(api_key, messages, outcome) ==
    IF messages = <<>>
    THEN NotAnalysed("no_messages")
    ELSE Analysed(api_key, outcome, <<"group_report", Len(messages)>>)

\* analyze_user_communication
analyze_user_communication(api_key, user_messages, interactions, username, outcome) ==
    IF user_messages = <<>>
    THEN NotAnalysed("no_user_messages")
    ELSE Analysed(api_key, outcome,
                  <<"personal_report", username, Len(user_messages)>>)

\* analyze_conflict and analyze_tips: the answer of _call_gemini as it is
Narrated(api_key, outcome) ==
    LET response == _call_gemini(api_key, outcome)
    IN  [result |-> response.text, response |-> response.text,
         calls |-> response.calls, parsed |-> FALSE, raised |-> FALSE]

analyze_conflict(api_key, messages, outcome) ==
    IF messages = <<>>
    THEN NotAnalysed("no_messages")
    ELSE Narrated(api_key, outcome)

analyze_tips(api_key, messages, outcome) ==
    IF messages = <<>>
    THEN NotAnalysed("no_messages")
    ELSE Narrated(api_key, outcome)

\* the message lists given to the analyzer
Conversations ==
    {<<>>, <<Message(-100, 1, UsernameOf(1), TextOf(0), 0)>>,
     <<Message(-100, 1, UsernameOf(1), TextOf(0), 0),
       Message(-100, 2, UsernameOf(2), TextOf(1), 1)>>}

RECURSIVE Repeat(_, _)
Repeat(x, n) == IF n = 0 THEN <<>> ELSE <<x>> \o Repeat(x, n - 1)

\* importing main builds bot, dp, message_cache and ai_analyzer;
\* CommunicationAnalyzer.__init__ configures the client and iterates
\* genai.list_models() inside try / except. webhook.py imports main in the
\* first POST whose body json.loads accepted.
ImportMain(listing) ==
    /\ ai_analyzer = None
    /\ listing \in ListOutcomes(GEMINI_API_KEY)
    /\ ai_analyzer' = <<[model_name |-> MODEL_NAME]>>
    /\ network' = Append(network, LIST_MODELS)
    /\ last' = [op |-> "import_main", listing |-> listing, raised |-> FALSE]
    /\ UNCHANGED <<AUTHORIZED_USERS, user_last_command, now, chats, db, dbOK,
                   log, startup, GEMINI_API_KEY, tasks>>

\* what an analysis called by a handler leaves behind
AnalyzerRan(op, messages, outcome, ran) ==
    /\ ai_analyzer # None
    /\ outcome \in GenerateOutcomes(GEMINI_API_KEY)
    /\ Len(network) + ran.calls <= MaxRequests
    /\ network' = network \o Repeat(Request("generate_content", op), ran.calls)
    /\ last' = [op |-> op, messages |-> messages, outcome |-> outcome,
                api_key |-> GEMINI_API_KEY, result |-> ran.result,
                response |-> ran.response, calls |-> ran.calls,
                parsed |-> ran.parsed, raised |-> ran.raised]
    /\ UNCHANGED <<AUTHORIZED_USERS, user_last_command, now, chats, db, dbOK,
                   log, startup, GEMINI_API_KEY, ai_analyzer, tasks>>

AnalyzeMessages(messages, outcome) ==
    /\ messages \in Conversations
    /\ AnalyzerRan("analyze_messages", messages, outcome,
                    analyze_messages(GEMINI_API_KEY, messages, outcome))

AnalyzeUserCommunication(user_messages, outcome) ==
    /\ user_messages \in Conversations
    /\ AnalyzerRan("analyze_user_communication", user_messages, outcome,
                    analyze_user_communication(GEMINI_API_KEY, user_messages,
                        [self |-> user_messages], UsernameOf(1), outcome))

AnalyzeConflict(messages, outcome) ==
    /\ messages \in Conversations
    /\ AnalyzerRan("analyze_conflict", messages, outcome,
                    analyze_conflict(GEMINI_API_KEY, messages, outcome))

AnalyzeTips(messages, outcome) ==
    /\ messages \in Conversations
    /\ AnalyzerRan("analyze_tips", messages, outcome,
                    analyze_tips(GEMINI_API_KEY, messages, outcome))

AllOutcomes == AnyOutcome \cup KeyRefused \cup NoKey

AnalyzerNext ==
    \/ \E listing \in Listings :
           ImportMain(listing)
    \/ \E messages \in Conversations, outcome \in AllOutcomes :
           AnalyzeMessages(messages, outcome)
    \/ \E messages \in Conversations, outcome \in AllOutcomes :
           AnalyzeUserCommunication(messages, outcome)
    \/ \E messages \in Conversations, outcome \in AllOutcomes :
           AnalyzeConflict(messages, outcome)
    \/ \E messages \in Conversations, outcome \in AllOutcomes :
           AnalyzeTips(messages, outcome)

AnalyzerInit ==
    /\ AUTHORIZED_USERS = Members
    /\ startup = AUTHORIZED_USERS
    /\ GEMINI_API_KEY \in ApiKeys
    /\ ai_analyzer = None
    /\ network = <<>>
    /\ tasks = <<>>
    /\ user_last_command = <<>>
    /\ now = 0
    /\ chats = <<>>
    /\ db = <<>>
    /\ dbOK = TRUE
    /\ log = <<>>
    /\ last = [op |-> "init"]

\* a process of the webhook host from its first import of main on
SpecAnalyzer == AnalyzerInit /\ [][AnalyzerNext]_vars

----------------------------------------------------------------------------
(* Authorization and rate limiting *)

AuthorizedOnly == {"analyze_last_100", "analyze_last_24h", "chat_stats",
                   "my_communication", "analyze_user", "analyze_user_all"}

RateLimited == {"analyze_last_100", "analyze_last_24h", "my_communication",
                "analyze_user", "analyze_user_all", "conflict", "digest"}

Outsider(o, users) ==
    /\ o.op \in AuthorizedOnly
    /\ o.from_user # None
    /\ o.from_user[1] \notin Range(users)

NothingDone(o) == o.store = {} /\ o.analysis = NoAnalysis

\* the chats a command is taken in: a group chat, or any chat for the
\* cross-chat personal analysis
Allowed(o) == o.chat_id \in Groups \/ o.op = "analyze_user_all"

\* C1 as stated: for every authorized-only command, a caller whose id is not
\* in the authorized-user list receives the 'not authorized' denial, the
\* handler makes no Message Store call and no Analyzer call, and the
\* rate-limit ledger is left unchanged.
C1_DenialEverywhere ==
    [][Outsider(last', AUTHORIZED_USERS) =>
          /\ last'.sent = <<Out(last'.chat_id, "not_authorized")>>
          /\ NothingDone(last')
          /\ user_last_command' = user_last_command]_vars

\* C1: for every authorized-only command, a caller whose id is not in the
\* authorized-user list causes no Message Store call and no Analyzer call and
\* leaves the rate-limit ledger unchanged; the caller receives the 'not
\* authorized' denial when the command is issued in a group chat (for
\* /analyze_user_all, in any chat) and the group-only notice when it is
\* issued in a one-to-one chat.
C1_AuthorizationGating ==
    [][Outsider(last', AUTHORIZED_USERS) =>
          /\ NothingDone(last')
          /\ user_last_command' = user_last_command
          /\ Len(last'.sent) = 1
          /\ last'.sent[1].to = last'.chat_id
          /\ IF Allowed(last')
             THEN last'.sent[1].kind = "not_authorized"
             ELSE last'.sent[1].kind \in {"group_only", "private_chat_only"}
      ]_vars

\* an outsider is denied in a group chat that has stored messages, after a
\* member's command was accepted
C1_Witness ==
    /\ Outsider(last, AUTHORIZED_USERS)
    /\ last.chat_id \in Groups
    /\ RowsOfChat(db, last.chat_id) # <<>>
    /\ last.sent = <<Out(last.chat_id, "not_authorized")>>
    /\ DOMAIN user_last_command # {}

\* C2: a call to the LLM generation endpoint is only ever made on behalf of
\* a user who was in the authorized-user list when the analysis command
\* (/analyze_last_100, /analyze_last_24h, /my_communication, /analyze_user,
\* /analyze_user_all, /conflict, /digest) was accepted.
C2_LLMOnlyForMembers ==
    [][(last'.op \in RateLimited /\ last'.analysis.llm_calls > 0) =>
          /\ last'.from_user # None
          /\ last'.from_user[1] \in Range(AUTHORIZED_USERS)]_vars

\* C3: after any sequence of /add_user and /remove_user commands by any
\* users, position 0 of the authorized-user list holds the same id as at
\* startup.
C3_MainAdminNeverRemoved ==
    startup # <<>> =>
        /\ AUTHORIZED_USERS # <<>>
        /\ AUTHORIZED_USERS[1] = startup[1]

\* the main administrator asked for the removal of the main administrator
\* from a list with another member, and was refused
C3_Witness ==
    /\ last.op = "remove_user"
    /\ Len(AUTHORIZED_USERS) > 1
    /\ last.from_user = <<startup[1]>>
    /\ Len(last.sent) = 1
    /\ last.sent[1].kind \in {"user_cannot_remove", "user_cannot_remove_by_id"}
    /\ last.sent[1].user_id = startup[1]

NotMainAdmin(from_user, users) ==
    \/ from_user = None
    \/ users = <<>>
    \/ from_user[1] # users[1]

\* C4: an /add_user or /remove_user command, in any of its forms, from a
\* caller who is not the first entry of the authorized-user list leaves the
\* list unchanged, and /list_users from such a caller is answered with a
\* fixed notice that carries no list content.
C4_OnlyMainAdminManages ==
    [][(/\ last'.op \in {"add_user", "remove_user", "list_users"}
        /\ NotMainAdmin(last'.from_user, AUTHORIZED_USERS)) =>
          /\ AUTHORIZED_USERS' = AUTHORIZED_USERS
          /\ \A i \in 1..Len(last'.sent) :
                 last'.sent[i] \in
                     {Out(last'.chat_id, "private_chat_only"),
                      Out(last'.chat_id, "main_admin_only_add"),
                      Out(last'.chat_id, "main_admin_only_remove"),
                      Out(last'.chat_id, "main_admin_only_list")}]_vars

\* a member who is not the main administrator was refused in a group chat
C4_Witness ==
    /\ last.op \in {"add_user", "remove_user", "list_users"}
    /\ last.chat_id \in Groups
    /\ last.from_user # None
    /\ last.from_user[1] \in Range(AUTHORIZED_USERS)
    /\ last.from_user[1] # AUTHORIZED_USERS[1]
    /\ Len(last.sent) = 1
    /\ last.sent[1].kind \in {"main_admin_only_add", "main_admin_only_remove",
                              "main_admin_only_list"}

RateLimitTicks == RateLimitSeconds * TicksPerSec

RateLimitedCommand(o) == o.op \in RateLimited /\ o.from_user # None

\* the command comes to the rate-limit gate: it is issued in a chat it is
\* taken in, by a user authorized for it (/conflict and /digest ask for no
\* authorization)
ReachesGate(o, users) ==
    /\ RateLimitedCommand(o)
    /\ Allowed(o)
    /\ o.op \in {"conflict", "digest"} \/ o.from_user[1] \in Range(users)

\* what the gate does with a command of user_id in the step to o
Gate(o, user_id) ==
    /\ (/\ user_id \in DOMAIN user_last_command
        /\ now - user_last_command[user_id] < RateLimitTicks) =>
           /\ o.sent = <<Out(o.chat_id, "rate_limit")>>
           /\ NothingDone(o)
           /\ user_last_command' = user_last_command
    /\ (/\ user_id \in DOMAIN user_last_command
        /\ now - user_last_command[user_id] > RateLimitTicks) =>
           /\ \A i \in 1..Len(o.sent) : o.sent[i].kind # "rate_limit"
           /\ user_last_command'[user_id] = now

\* the ledger entry of a user is the time that user's last command was
\* accepted: only a command let through changes the ledger, and it sets
\* its sender's entry to the time it arrived
LedgerKeepsLastAccepted ==
    user_last_command' # user_last_command =>
        /\ RateLimitedCommand(last')
        /\ user_last_command' =
               [k \in DOMAIN user_last_command \cup {last'.from_user[1]} |->
                    IF k = last'.from_user[1] THEN now
                    ELSE user_last_command[k]]

\* C5 as stated: of two rate-limited commands of the same user, in any
\* chats, the second is rejected with the wait message and triggers no Store
\* read and no Analyzer call if it arrives less than rate_limit_seconds after
\* the first was accepted, and is let through if it arrives more than
\* rate_limit_seconds after.
C5_WaitMessageEverywhere ==
    [][/\ LedgerKeepsLastAccepted
       /\ RateLimitedCommand(last') => Gate(last', last'.from_user[1])]_vars

\* C5: of two rate-limited commands of the same user, of any kinds and in
\* any chats, each issued where the command is taken (a group chat, or any
\* chat for /analyze_user_all) by a user authorized for it, the second is
\* rejected with the wait message and triggers no Store read and no Analyzer
\* call if it arrives less than rate_limit_seconds after the first was
\* accepted, and is let through if it arrives more than rate_limit_seconds
\* after.
C5_RateLimiting ==
    [][/\ LedgerKeepsLastAccepted
       /\ ReachesGate(last', AUTHORIZED_USERS) =>
              Gate(last', last'.from_user[1])]_vars

\* a command arrives later than, but within the interval of, its sender's
\* last accepted command, in a group chat with stored messages, and is
\* rejected with the wait message
C5_Witness ==
    /\ ReachesGate(last, AUTHORIZED_USERS)
    /\ last.chat_id \in Groups
    /\ RowsOfChat(db, last.chat_id) # <<>>
    /\ last.from_user[1] \in DOMAIN user_last_command
    /\ user_last_command[last.from_user[1]] < now
    /\ now - user_last_command[last.from_user[1]] < RateLimitTicks
    /\ last.sent = <<Out(last.chat_id, "rate_limit")>>

----------------------------------------------------------------------------
(* What was appended, as the durable log keeps it *)

\* the messages appended to a chat, in append order
LogOf(chat_id) == SelectSeq(log, LAMBDA m : m.chat_id = chat_id)

\* a message as stored: its timestamp kept to the second
Stored(m) == [m EXCEPT !.timestamp = (m.timestamp \div TicksPerSec) * TicksPerSec]
StoredSeq(s) == [i \in 1..Len(s) |-> Stored(s[i])]

\* the last k elements of s (all of s when it has fewer)
LastK(s, k) == IF k >= Len(s) THEN s ELSE SubSeq(s, Len(s) - k + 1, Len(s))

MinNat(a, b) == IF a <= b THEN a ELSE b

StrictlyIncreasing(s) ==
    \A i \in 1..Len(s) : \A j \in 1..Len(s) :
        i < j => s[i].timestamp < s[j].timestamp
Ascending(s) ==
    \A i \in 1..Len(s) : \A j \in 1..Len(s) :
        i < j => s[i].timestamp <= s[j].timestamp


----------------------------------------------------------------------------
(* Claims about the MessageCache, checked under SpecStore *)

\* C6: memory-cap eviction.  After n add_message calls for a chat its
\* in-memory working set holds exactly min(n, memory_cache_size) messages, the
\* most recently appended ones in append order; the durable log keeps all n
\* rows, and get_last_n_messages(chat, N) returns min(N, n) of them, so more
\* than memory_cache_size when N and n both exceed the cap.
C6_MemoryCapEviction ==
    \A c \in Groups :
        LET appended == LogOf(c)
            n == Len(appended)
        IN  /\ Len(ChatDeque(chats, c)) = MinNat(n, MemoryCacheSize)
            /\ ChatDeque(chats, c) = LastK(appended, MemoryCacheSize)
            /\ Len(RowsOfChat(db, c)) = n
            /\ (last.op = "get_last_n_messages" /\ last.chat_id = c)
                   => Len(last.result) = MinNat(last.n, n)

\* C6 witness: a chat got more messages than the cap, memory holds the cap,
\* and a read of N > cap messages returned more than the cap
C6_Witness ==
    /\ last.op = "get_last_n_messages"
    /\ last.n > MemoryCacheSize
    /\ Len(LogOf(last.chat_id)) > MemoryCacheSize
    /\ Len(ChatDeque(chats, last.chat_id)) = MemoryCacheSize
    /\ Len(last.result) > MemoryCacheSize

\* C7: round-trip ordering.  When the messages appended to a chat have
\* strictly increasing timestamps and k is at most their number,
\* get_last_n_messages(chat, k) returns exactly the k most recently appended
\* messages of that chat (timestamps as stored, to the second), none of
\* another chat, in ascending timestamp order.
C7_RoundTripOrdering ==
    (/\ last.op = "get_last_n_messages"
     /\ StrictlyIncreasing(LogOf(last.chat_id))
     /\ last.n <= Len(LogOf(last.chat_id)))
    => /\ last.result = StoredSeq(LastK(LogOf(last.chat_id), last.n))
       /\ Len(last.result) = last.n
       /\ \A i \in 1..Len(last.result) :
              last.result[i].chat_id = last.chat_id
       /\ Ascending(last.result)

\* C7 witness: two messages with increasing timestamps inside one second in
\* a chat, a later message in another chat, and the newest one of the first
\* chat read back
C7_Witness ==
    /\ last.op = "get_last_n_messages"
    /\ last.n = 1
    /\ Len(LogOf(last.chat_id)) = 2
    /\ StrictlyIncreasing(LogOf(last.chat_id))
    /\ ts_to_str(LogOf(last.chat_id)[1].timestamp)
           = ts_to_str(LogOf(last.chat_id)[2].timestamp)
    /\ Len(log) = 3
    /\ log[3].chat_id # last.chat_id
    /\ log[3].timestamp > LogOf(last.chat_id)[2].timestamp
    /\ last.result = <<Stored(LogOf(last.chat_id)[2])>>

\* the messages of a chat as stored, oldest first (equal stored timestamps in
\* append order)
StoredOf(chat_id) == OrderByTime(StoredSeq(LogOf(chat_id)))

\* C8: time-window filter, as claimed.  get_messages_since(chat, since_time)
\* returns exactly the stored messages of the chat whose timestamp is
\* >= since_time, in ascending timestamp order, and none of another chat.
C8_TimeWindowFilter ==
    last.op = "get_messages_since"
    => /\ last.result =
              SelectSeq(StoredOf(last.chat_id),
                        LAMBDA m : m.timestamp >= last.since_time)
       /\ \A i \in 1..Len(last.result) :
              last.result[i].chat_id = last.chat_id

\* C9: per-user isolation, as claimed.  get_user_messages(chat, user) returns
\* exactly the user's messages in the chat, oldest first; with a limit L
\* exactly the user's L most recent ones, oldest first.
C9_PerUserIsolation ==
    last.op = "get_user_messages"
    => LET mine == SelectSeq(StoredOf(last.chat_id),
                             LAMBDA m : m.user_id = last.user_id)
       IN  last.result = IF last.limit = None THEN mine
                         ELSE LastK(mine, last.limit[1])

\* C10: chat statistics.  get_chat_stats(chat) reports total_messages = the
\* number of messages stored for the chat, unique_users = the number of
\* distinct author ids among them, oldest_message / newest_message = the
\* least / greatest stored timestamp, both None for a chat without messages.
C10_ChatStatsAccuracy ==
    last.op = "get_chat_stats"
    => LET stored == StoredOf(last.chat_id)
           stamps == {m.timestamp : m \in Range(stored)}
       IN  /\ last.result.total_messages = Len(stored)
           /\ last.result.unique_users =
                  Cardinality({m.user_id : m \in Range(stored)})
           /\ last.result.oldest_message =
                  IF stored = <<>> THEN None ELSE <<MinOf(stamps)>>
           /\ last.result.newest_message =
                  IF stored = <<>> THEN None ELSE <<MaxOf(stamps)>>

\* C10 witness: statistics of a chat holding more messages than the memory
\* cap, from two authors, spanning two different seconds, appended out of
\* timestamp order
C10_Witness ==
    /\ last.op = "get_chat_stats"
    /\ last.result.total_messages > MemoryCacheSize
    /\ last.result.unique_users = 2
    /\ last.result.oldest_message # last.result.newest_message
    /\ ~Ascending(LogOf(last.chat_id))

----------------------------------------------------------------------------
(* Claims about the interaction map, checked under SpecInteractions *)

IsInteraction(x) == "type" \in DOMAIN x

\* the anchors of a user in a working set, and the <<anchor, partner>>
\* index pairs at most CONTEXT_RANGE positions apart
AnchorsOf(all, user_id) == {i \in 1..Len(all) : all[i].user_id = user_id}
PairsOf(all, user_id) ==
    {p \in AnchorsOf(all, user_id) \X (1..Len(all)) :
        /\ all[p[2]].user_id # user_id
        /\ p[2] - p[1] <= CONTEXT_RANGE
        /\ p[1] - p[2] <= CONTEXT_RANGE}

\* the record claimed for a pair: the anchor is given when the partner's
\* message comes after it
RecordOf(all, p) ==
    InteractionRecord(IF p[2] > p[1] THEN <<all[p[1]]>> ELSE None, all[p[2]])

Occurrences(s, x) == Cardinality({n \in 1..Len(s) : s[n] = x})

\* C11: interaction windowing.  get_user_interactions(chat, user) holds under
\* key "self" every message of the working set authored by the user, and for
\* each such anchor one interaction record per message of another author
\* within 3 positions before or after it, filed under that author's display
\* name, with user_message the anchor when the partner's message comes after
\* the anchor and None otherwise; it holds nothing else.
C11_InteractionWindowing ==
    (last.op = "get_user_interactions" /\ last.limit = None) =>
        LET all == ChatDeque(chats, last.chat_id)
            user_id == last.user_id
            R == last.result
            pairs == PairsOf(all, user_id)
            named(k) == {p \in pairs : all[p[2]].username = k}
        IN  /\ DOMAIN R =
                   (IF AnchorsOf(all, user_id) = {} THEN {} ELSE {SelfKey})
                   \cup {all[p[2]].username : p \in pairs}
            /\ SelfKey \in DOMAIN R =>
                   SelectSeq(R[SelfKey], LAMBDA x : ~IsInteraction(x))
                       = SelectSeq(all, LAMBDA m : m.user_id = user_id)
            /\ \A k \in DOMAIN R :
                   LET records == SelectSeq(R[k], IsInteraction)
                   IN  /\ k # SelfKey => records = R[k]
                       /\ \A n \in 1..Len(records) :
                              records[n] \in {RecordOf(all, p) : p \in named(k)}
                       /\ \A p \in named(k) :
                              Occurrences(records, RecordOf(all, p)) =
                                  Cardinality({q \in named(k) :
                                      RecordOf(all, q) = RecordOf(all, p)})

\* C11 witness: in a conversation of five messages the user speaks first and
\* later again; a partner's message three positions after the first anchor is
\* recorded with the anchor, the message four positions after it is not
\* recorded for that anchor, and a partner's message before the later anchor
\* is recorded without a user_message
C11_Witness ==
    /\ last.op = "get_user_interactions"
    /\ last.limit = None
    /\ LET all == ChatDeque(chats, last.chat_id)
           R == last.result
       IN  /\ Len(all) = 5
           /\ all[1].user_id = last.user_id
           /\ all[4].user_id # last.user_id
           /\ all[5].user_id # last.user_id
           /\ \E k \in DOMAIN R : \E n \in 1..Len(R[k]) :
                  R[k][n] = InteractionRecord(<<all[1]>>, all[4])
           /\ \A k \in DOMAIN R : \A n \in 1..Len(R[k]) :
                  R[k][n] # InteractionRecord(<<all[1]>>, all[5])
           /\ \E k \in DOMAIN R : \E n \in 1..Len(R[k]) :
                  /\ IsInteraction(R[k][n])
                  /\ R[k][n].user_message = None

----------------------------------------------------------------------------
(* Claims about the dispatch layer, checked under SpecDispatch *)

\* the messages held in memory
Held(c) == UNION {Range(c[k]) : k \in DOMAIN c}

\* the step added a message to the Message Store
MessageAdded ==
    \/ log' # log
    \/ Range(db') \ Range(db) # {} \/ Len(db') > Len(db)
    \/ Held(chats') \ Held(chats) # {}

\* C12: passive capture.  Over any sequence of updates a message is added to
\* the Message Store only if it is a non-empty text message from a known
\* sender in a group or supergroup chat whose text does not begin with '/';
\* commands and one-to-one chat messages are never captured, and no command
\* handler adds a message to the Store.
C12_PassiveCapture ==
    [][MessageAdded =>
          /\ last'.op = "message"
          /\ CommandOf(last'.text) = None
          /\ last'.chat_id \in Groups
          /\ last'.from_user # None
          /\ last'.text # None
          /\ last'.text[1] # <<>>
          /\ last'.text[1][1] # "/"
          /\ log' = Append(log, Message(last'.chat_id, last'.from_user[1],
                                        UsernameOf(last'.from_user[1]),
                                        last'.text[1], now))]_vars

\* C12 witness: a text with a "/" inside was captured in a group chat, after
\* a command was accepted there, and is in the log, the table and memory
C12_Witness ==
    /\ last.op = "message"
    /\ Len(log) = 1
    /\ last.text = <<log[1].text>>
    /\ log[1].text = <<"a", "/", "b">>
    /\ db = <<RowOf(log[1])>>
    /\ ChatDeque(chats, last.chat_id) = <<log[1]>>
    /\ DOMAIN user_last_command # {}

----------------------------------------------------------------------------
(* Claims about storage failures, checked under SpecFaulty *)

\* C13: a failed durable write never crashes ingestion.  add_message returns
\* without raising whether or not the insert fails; after it the message is
\* the newest of the chat's in-memory working set; the table gets the row
\* when the insert succeeds and is left as it was when it fails, so calls
\* after a failure work as calls before it.
C13_FailedWriteSwallowed ==
    [][last'.op = "add_message" /\ log' # log =>
          /\ last'.raised = FALSE
          /\ log' = Append(log, last'.message)
          /\ LET q == ChatDeque(chats', last'.chat_id)
             IN  q # <<>> /\ q[Len(q)] = last'.message
          /\ db' = IF dbOK THEN Append(db, RowOf(last'.message)) ELSE db
      ]_vars

\* C13 witness: the insert of the first message failed, the connection
\* recovered, and the second message of the chat was added and inserted;
\* both are in memory
C13_Witness ==
    /\ last.op = "add_message"
    /\ Len(log) = 2
    /\ log[1].chat_id = log[2].chat_id
    /\ db = <<RowOf(log[2])>>
    /\ ChatDeque(chats, last.chat_id) = log
    /\ last.raised = FALSE

\* C14: read fallback, as claimed.  When the durable read fails,
\* get_last_n_messages(chat, n) returns, for every n >= 0, at most n
\* messages: the last n of the chat's in-memory working set, oldest first
\* (all of them when fewer than n are held, none for an unknown chat).
C14_ReadFallback ==
    (last.op = "get_last_n_messages" /\ ~dbOK) =>
        /\ Len(last.result) <= last.n
        /\ last.result = LastK(ChatDeque(chats, last.chat_id), last.n)

----------------------------------------------------------------------------
(* Delivery of reports, checked under Spec *)

PrivatelyDelivered == {"analyze_last_100", "analyze_last_24h",
                       "my_communication", "analyze_user", "analyze_user_all"}

\* C15: private delivery.  For /analyze_last_100, /analyze_last_24h,
\* /my_communication, /analyze_user and /analyze_user_all issued in a group
\* chat, the report body is sent only to the private chat of the requester
\* (the chat whose id is the requester's user id), and no message the
\* handler sends to the group chat carries the report body.
C15_PrivateDelivery ==
    (last.op \in PrivatelyDelivered /\ last.chat_id \in Groups) =>
        \A i \in 1..Len(last.sent) :
            /\ last.sent[i].kind = "report" =>
                   /\ last.from_user # None
                   /\ last.sent[i].to = last.from_user[1]
            /\ last.sent[i].to = last.chat_id => last.sent[i].kind # "report"
            /\ last.sent[i].to \in {last.chat_id} \cup Range(last.from_user)

\* C15 witness: a personal analysis asked for in a group chat made its call
\* to the model, the report went to the requester's private chat and the
\* group chat got the confirmation
C15_Witness ==
    /\ last.op \in {"my_communication", "analyze_user", "analyze_user_all"}
    /\ last.chat_id \in Groups
    /\ last.analysis.llm_calls = 1
    /\ \E i \in 1..Len(last.sent) :
           last.sent[i] = Out(last.from_user[1], "report")
    /\ last.sent[Len(last.sent)] = Out(last.chat_id, "analysis_sent_private")

----------------------------------------------------------------------------
(* C16: the webhook contract *)

IsResponse(x) == x.event = "send_response"
ResponsesOf(events) == SelectSeq(events, IsResponse)
PositionsOf(events, name) == {i \in 1..Len(events) : events[i].event = name}
Fed(r) == r.method = "POST" /\ r.content_length = "length" /\ r.body = "update"

\* C16: a GET request is answered 200 with a non-empty body; a POST with an
\* empty body (Content-Length 0 or missing) is answered 400, reaches no
\* dispatcher and changes nothing; a POST carrying an update whose dispatch
\* completes is answered 200, that answer is the last thing the handler
\* does and it comes after the dispatcher was fed and dispatch completed;
\* no 200 is sent for an update whose dispatch did not complete.
C16_WebhookContract ==
    [][last'.op = "http" =>
         LET r == last'
             responses == ResponsesOf(r.events)
         IN  /\ r.method = "GET" =>
                    /\ Len(responses) = 1
                    /\ responses[1].status = 200
                    /\ responses[1].message # ""
             /\ r.method = "POST" /\ r.content_length \in {"absent", "zero"} =>
                    /\ Len(responses) = 1
                    /\ responses[1].status = 400
                    /\ PositionsOf(r.events, "feed_update") = {}
                    /\ PositionsOf(r.events, "handle_update") = {}
                    /\ UNCHANGED <<AUTHORIZED_USERS, user_last_command, now,
                                   chats, db, Frozen>>
             /\ Fed(r) /\ "raised" \notin DOMAIN r.update =>
                    /\ Len(responses) = 1
                    /\ responses[1].status = 200
                    /\ r.events[Len(r.events)] = responses[1]
                    /\ \E i \in PositionsOf(r.events, "feed_update") :
                           \E j \in PositionsOf(r.events, "dispatch_completed") :
                               i < j /\ j < Len(r.events)
             /\ Fed(r) /\ "raised" \in DOMAIN r.update =>
                    \A i \in 1..Len(responses) : responses[i].status # 200
    ]_vars

\* a posted group message was captured by the dispatcher and answered 200
C16_Witness ==
    /\ last.op = "http"
    /\ last.method = "POST"
    /\ Fed(last)
    /\ "raised" \notin DOMAIN last.update
    /\ last.update.op = "message"
    /\ Len(log) = 1
    /\ ResponsesOf(last.events)[1].status = 200

----------------------------------------------------------------------------
(* C17: the webhook error mapping *)

\* C17: a POST whose body is malformed or absent JSON is answered 400; a
\* failure during dispatch is answered 500; every request gets exactly one
\* response.
C17_WebhookErrorMapping ==
    last.op = "http" =>
        LET responses == ResponsesOf(last.events)
        IN  /\ Len(responses) = 1
            /\ last.method = "POST" =>
                   /\ last.content_length \in {"absent", "zero"} =>
                          responses[1].status = 400
                   /\ /\ last.content_length = "length"
                      /\ last.body \in {"malformed_json", "not_utf8"}
                      => responses[1].status = 400
                   /\ /\ last.content_length = "length"
                      /\ \/ last.body = "not_an_update"
                         \/ Fed(last) /\ "raised" \in DOMAIN last.update
                      => responses[1].status = 500

----------------------------------------------------------------------------
(* C18: construction without network round-trips *)

\* C18: no call to the LLM service is made while the bot client, the
\* dispatcher, the message store and the analyzer are constructed; every
\* call is made for an analysis a dispatched update asked for.
C18_LazyConstruction ==
    /\ \A i \in 1..Len(network) : network[i].during # "construction"
    /\ last.op = "import_main" => network = <<>>

----------------------------------------------------------------------------
(* C19: no LLM call without an API key *)

AnalysisOps == {"analyze_messages", "analyze_user_communication",
                "analyze_conflict"}

\* C19: when no API key is configured, the generate call hands nothing to
\* the LLM client and returns the diagnostic string about the key.
C19_MissingKeyShortCircuit ==
    /\ last.op \in AnalysisOps
    /\ last.api_key = None
    /\ last.messages # <<>>
    => /\ last.calls = 0
       /\ last.response = <<ERROR_GLYPH, "api_key">>

----------------------------------------------------------------------------
(* C20: diagnostic strings pass through the analyses *)

\* C20: when the generate call returned a string beginning with the error or
\* the warning glyph, analyze_messages and analyze_user_communication
\* return that string unchanged and do not hand it to json.loads.
C20_DiagnosticPassThrough ==
    /\ last.op \in {"analyze_messages", "analyze_user_communication"}
    /\ last.response # None
    /\ IsDiagnostic(last.response)
    => /\ last.result = last.response
       /\ ~last.parsed

----------------------------------------------------------------------------
(* C21: an empty message list is answered without asking the LLM *)

PublicOps == {"analyze_messages", "analyze_user_communication",
              "analyze_conflict", "analyze_tips"}

NoMessagesString(op) ==
    IF op = "analyze_user_communication"
    THEN <<ERROR_GLYPH, "no_user_messages">>
    ELSE <<ERROR_GLYPH, "no_messages">>

\* C21: each of the four analyses, called with an empty message list,
\* returns its fixed 'no messages' string and hands no call to the LLM
\* client.
C21_EmptyInputShortCircuit ==
    [][last'.op \in PublicOps /\ last'.messages = <<>> =>
           /\ last'.result = NoMessagesString(last'.op)
           /\ last'.calls = 0
           /\ network' = network
           /\ ~last'.raised]_vars

\* analyze_tips was called with no messages after an analysis that did ask
\* the LLM
C21_Witness ==
    /\ last.op = "analyze_tips"
    /\ last.messages = <<>>
    /\ Len(network) = 2
    /\ network[2].call = "generate_content"

----------------------------------------------------------------------------
(* C22: a response that is no JSON *)

\* C22: when analyze_messages or analyze_user_communication gets a
\* non-empty text from the generate call that is not valid JSON, it returns
\* the fixed 'could not process the response' string and does not raise.
C22_MalformedResponse ==
    /\ last.op \in {"analyze_messages", "analyze_user_communication"}
    /\ last.messages # <<>>
    /\ last.response # <<>>
    /\ last.response \notin {JSON_OBJECT, JSON_LIST}
    => /\ last.result = <<ERROR_GLYPH, "cannot_parse">>
       /\ ~last.raised

\* the personal analysis got prose from the model
C22_Witness ==
    /\ last.op = "analyze_user_communication"
    /\ last.outcome = Responded(PROSE)
    /\ last.result = <<ERROR_GLYPH, "cannot_parse">>

----------------------------------------------------------------------------
(* C23: the analyzer never raises *)

IsString(s) == DOMAIN s = 1..Len(s)

\* C23: whatever the LLM call does (text, empty text, blocked prompt, any
\* exception), each of the four analyses returns a string and does not
\* raise; for a blocked prompt the generate call returns a string that
\* begins with the warning glyph and names the block reason.
C23_NeverRaises ==
    last.op \in PublicOps =>
        /\ ~last.raised
        /\ IsString(last.result)
        /\ last.messages # <<>> /\ last.outcome.kind = "blocked" =>
               /\ last.response[1] = WARNING_GLYPH
               /\ last.response[Len(last.response)] = last.outcome.block_reason
        /\ /\ last.messages # <<>>
           /\ last.outcome.kind = "blocked"
           /\ last.op \in {"analyze_conflict", "analyze_tips"}
           => last.result = last.response

\* analyze_conflict met a blocked prompt, analyze_messages a JSON list
C23_Witness ==
    /\ last.op = "analyze_messages"
    /\ last.outcome = Responded(JSON_LIST)
    /\ Len(network) = 3
    /\ network[2].during = "analyze_conflict"

----------------------------------------------------------------------------
(* C24: the durable rows of a chat and max_size *)

\* C24: after any sequence of add_message calls no chat has more than
\* max_size rows in the durable table.
C24_DurableRetentionCap ==
    \A chat_id \in Groups : Len(RowsOfChat(db, chat_id)) <= MaxSize

----------------------------------------------------------------------------
(* C26: the working set is the tail of the durable log *)

AddedTo(chat_id) == Cardinality({i \in 1..Len(log) : log[i].chat_id = chat_id})

\* C26: without failed inserts, the working set of each chat holds
\* min(n, memory_cache_size) messages, n being the number of messages added
\* to the chat, and they are, one by one and in the same order, the
\* messages stored in the last min(n, memory_cache_size) rows of the chat.
C26_WorkingSetIsTail ==
    \A chat_id \in Groups :
        LET ws == ChatDeque(chats, chat_id)
            rows == RowsOfChat(db, chat_id)
            k == IF AddedTo(chat_id) < MemoryCacheSize
                 THEN AddedTo(chat_id) ELSE MemoryCacheSize
        IN  /\ Len(ws) = k
            /\ Len(rows) >= k
            /\ \A i \in 1..k : RowOf(ws[i]) = rows[Len(rows) - k + i]

\* three messages went to one chat, so the oldest left the working set
C26_Witness ==
    /\ AddedTo(-100) = 3
    /\ Len(ChatDeque(chats, -100)) = MemoryCacheSize
    /\ Len(RowsOfChat(db, -100)) = 3
    /\ ChatDeque(chats, -100)[1].user_id # ChatDeque(chats, -100)[2].user_id

\* the commands that begin with the chat-type check
GroupOnlyCommands == Commands \ {"start", "help", "analyze_user_all"}

GROUP_ONLY_NOTICES == {"group_only", "private_chat_only"}

\* C25: every administrative and analysis command other than /start, /help
\* and /analyze_user_all, when issued in a one-to-one chat, is answered with
\* the group-only notice alone, in that chat, before any authorization or
\* rate-limit check: it makes no Store call and no Analyzer call and leaves
\* the authorized-user list, the rate-limit ledger and the stored messages
\* unchanged, whoever sent it; /analyze_user_all is never answered with the
\* group-only notice, in a one-to-one chat or in a group chat.
C25_GroupOnly ==
    [][/\ (last'.op \in GroupOnlyCommands /\ ChatIsPrivate(last'.chat_id)) =>
              /\ Len(last'.sent) = 1
              /\ last'.sent[1].to = last'.chat_id
              /\ last'.sent[1].kind \in GROUP_ONLY_NOTICES
              /\ last'.store = {}
              /\ last'.analysis = NoAnalysis
              /\ AUTHORIZED_USERS' = AUTHORIZED_USERS
              /\ user_last_command' = user_last_command
              /\ chats' = chats
              /\ db' = db
       /\ last'.op = "analyze_user_all" =>
              /\ \A i \in DOMAIN last'.sent :
                     last'.sent[i].kind \notin GROUP_ONLY_NOTICES
              /\ (/\ last'.from_user # None
                  /\ is_user_authorized(AUTHORIZED_USERS, last'.from_user[1])
                  /\ last'.from_user[1] \notin DOMAIN user_last_command) =>
                     last'.from_user[1] \in DOMAIN user_last_command'
      ]_vars

\* a user who is not on the list and a user who is still rate-limited both
\* get the notice: here the sender of /conflict in a one-to-one chat is
\* rate-limited by an earlier accepted command
C25_Witness ==
    /\ last.op = "conflict"
    /\ ChatIsPrivate(last.chat_id)
    /\ last.from_user # None
    /\ last.from_user[1] \in DOMAIN user_last_command
    /\ last.sent = <<Out(last.chat_id, "group_only")>>

WindowCommands == {"analyze_last_100", "analyze_last_24h"}

\* the positions at which a run took the given step
StepsAt(steps, step) ==
    {i \in DOMAIN steps : steps[i].action = step.action /\ steps[i] = step}

ToldToWait(o) == o.sent = <<Out(o.chat_id, "rate_limit")>>

\* C28: the rate-limit ledger records only accepted commands.  A command the
\* rate limiter rejects leaves the ledger as it was; the ledger changes only
\* when a rate-limited command passes the gate, and then only in its
\* sender's entry, which becomes the time of that command; so a command that
\* comes to the gate when its sender has no entry, or an entry at least
\* rate_limit_seconds old, is accepted, whatever was rejected in between.
C28_LedgerOnlyAccepted ==
    [][/\ (RateLimitedCommand(last') /\ ToldToWait(last')) =>
              user_last_command' = user_last_command
       /\ user_last_command' # user_last_command =>
              /\ ReachesGate(last', AUTHORIZED_USERS)
              /\ ~ToldToWait(last')
              /\ DOMAIN user_last_command' =
                     DOMAIN user_last_command \cup {last'.from_user[1]}
              /\ \A k \in DOMAIN user_last_command' :
                     user_last_command'[k] =
                         IF k = last'.from_user[1] THEN now
                         ELSE user_last_command[k]
       /\ (/\ ReachesGate(last', AUTHORIZED_USERS)
           /\ \/ last'.from_user[1] \notin DOMAIN user_last_command
              \/ now - user_last_command[last'.from_user[1]]
                     >= RateLimitSeconds * TicksPerSec) =>
              /\ ~ToldToWait(last')
              /\ user_last_command'[last'.from_user[1]] = now
      ]_vars

\* a command rejected one tick after its sender's accepted command: the entry
\* still holds the time of the accepted one
C28_Witness ==
    /\ RateLimitedCommand(last)
    /\ ToldToWait(last)
    /\ last.from_user[1] \in DOMAIN user_last_command
    /\ user_last_command[last.from_user[1]] = 0
    /\ now = 1

\* the task ran its gate and check_rate_limit let it pass
PassedGate(task) ==
    /\ task.run # None
    /\ ReachesGate(task.run[1], AUTHORIZED_USERS)
    /\ ~ToldToWait(task.run[1])

\* the Analyzer calls among the awaits of a task
CallsOf(task) == Cardinality(StepsAt(task.steps, ANALYZE_MESSAGES))

\* C29: with handlers interleaving only at their awaits, of two rate-limited
\* commands of one user that are in flight together and whose ledger checks
\* are less than rate_limit_seconds apart, at most one passes the rate-limit
\* gate and at most one Analyzer call is made for the two: the ledger always
\* holds the time of the check of every task that passed.
C29_AtomicGate ==
    /\ \A i, j \in DOMAIN tasks :
           (/\ i # j
            /\ tasks[i].run # None
            /\ tasks[j].run # None
            /\ tasks[i].from_user = tasks[j].from_user
            /\ tasks[i].checked_at - tasks[j].checked_at < RateLimitTicks
            /\ tasks[j].checked_at - tasks[i].checked_at < RateLimitTicks) =>
               /\ ~(PassedGate(tasks[i]) /\ PassedGate(tasks[j]))
               /\ CallsOf(tasks[i]) + CallsOf(tasks[j]) <= 1
    /\ \A i \in DOMAIN tasks :
           PassedGate(tasks[i]) =>
               /\ tasks[i].from_user[1] \in DOMAIN user_last_command
               /\ user_last_command[tasks[i].from_user[1]]
                      >= tasks[i].checked_at

\* two commands of user 1 arrived together; the first passed the gate and is
\* suspended in the Analyzer call when the second runs its check, one tick
\* later, and is told to wait
C29_Witness ==
    /\ Len(tasks) = 2
    /\ tasks[1].from_user = tasks[2].from_user
    /\ PassedGate(tasks[1])
    /\ tasks[1].at = 2
    /\ Len(tasks[1].steps) = 4
    /\ tasks[1].steps[3] = ANALYZE_MESSAGES
    /\ tasks[2].run # None
    /\ ToldToWait(tasks[2].run[1])
    /\ tasks[1].checked_at = 0
    /\ tasks[2].checked_at = 1

\* the commands that post a 'thinking' placeholder in the chat and put the
\* narrative in its place
Narratives == {"conflict", "digest"}

\* C30: in /conflict and /digest, once the 'thinking' placeholder has been
\* posted and the Analyzer has returned a result, the handler ends having
\* delivered that result to the chat, also when the placeholder is already
\* gone from the platform when the handler comes to delete it.
C30_ResultDelivered ==
    (/\ last.op \in Narratives
     /\ last.sent # <<>>
     /\ last.sent[1] = Out(last.chat_id, "thinking")
     /\ last.analysis.llm_calls = 1) =>
        \E i \in DOMAIN last.sent :
            last.sent[i] = Out(last.chat_id, "report")

HasMarker(text) == \E i \in DOMAIN text : text[i] \in MARKERS

\* C31: safe_send_message and safe_edit_message call the platform a second
\* time exactly when it answered the first call with "can't parse entities";
\* the second call carries the text of the first with the markup stripped
\* and no parse_mode, and there is no third call; after any other error
\* there is one call only; with the plain-text-output flag set the first
\* call already carries the stripped text and no parse_mode, and without it
\* the first call carries the text and the parse_mode as given.
C31_SingleRetry ==
    last.op \in {"safe_send_message", "safe_edit_message"} =>
        /\ Len(last.attempts) \in {1, 2}
        /\ Len(last.attempts) = 2 <=> last.answers[1] = "cant_parse"
        /\ IF last.PLAIN_TEXT_OUTPUT
           THEN /\ last.attempts[1].parse_mode = None
                /\ ~HasMarker(last.attempts[1].text)
                /\ last.attempts[1].text = strip_markdown_formatting(last.text)
           ELSE last.attempts[1] = Attempt(last.text, last.parse_mode)
        /\ Len(last.attempts) = 2 =>
               /\ last.attempts[2].parse_mode = None
               /\ ~HasMarker(last.attempts[2].text)
               /\ last.attempts[2].text =
                      SelectSeq(Unescape(last.attempts[1].text), IsNoMarker)
               /\ last.raised <=> last.answers[2] # "ok"
        /\ Len(last.attempts) = 1 =>
               (last.raised <=>
                    last.answers[1] \notin
                        (IF last.op = "safe_edit_message"
                         THEN {"ok", "not_found"} ELSE {"ok"}))

\* a Markdown send of "*a_" that the platform could not parse went out again
\* as the plain text "a" and was taken
C31_Witness ==
    /\ last.op = "safe_send_message"
    /\ ~last.PLAIN_TEXT_OUTPUT
    /\ last.text = <<"*", "a", "_">>
    /\ last.attempts = <<Attempt(<<"*", "a", "_">>, <<"Markdown">>),
                         Attempt(<<"a">>, None)>>
    /\ ~last.raised

----------------------------------------------------------------------------
(* C32 *)

\* the messages of a chat's rows, in insertion (rowid) order
InsertedInto(d, chat_id) ==
    LET rows == RowsOfChat(d, chat_id)
    IN  [i \in 1..Len(rows) |-> row_to_message(rows[i])]

\* every message of the sequence carries the same stored timestamp
SameSecond(s) == \A i, j \in 1..Len(s) : s[i].timestamp = s[j].timestamp

\* the timestamps of the sequence never decrease
OldestFirst(s) ==
    \A i, j \in 1..Len(s) : i <= j => s[i].timestamp <= s[j].timestamp

----------------------------------------------------------------------------
(* C33 *)

\* a task that has run to its end
Ended(task) == task.run # None /\ task.at = Len(task.steps)

----------------------------------------------------------------------------
(* C34 *)

\* the last min(Len(s), n) elements of a sequence, in their order
MostRecent(s, n) ==
    IF Len(s) <= n THEN s ELSE SubSeq(s, Len(s) - n + 1, Len(s))

\* the trim of the chat, or of every chat for None
Trimmed(c, chat_id) ==
    IF chat_id = None THEN clear_old_messages_from_memory_all(c)
    ELSE clear_old_messages_from_memory(c, chat_id[1])

\* C34: clear_old_messages_from_memory, for one chat or for all, leaves the
\* table and the set of known chats as they were, leaves each targeted
\* working set with its most recent min(len, memory_cache_size) messages in
\* their order, leaves a working set within the cap (and every chat it was
\* not asked to trim) unchanged, and a second trim changes nothing more.
C34_HarmlessTrim ==
    [][last'.op = "clear_old_messages_from_memory" =>
          /\ db' = db
          /\ DOMAIN chats' = DOMAIN chats
          /\ get_all_chats(chats', db', dbOK') = get_all_chats(chats, db, dbOK)
          /\ \A k \in DOMAIN chats :
                 /\ (last'.chat_id \in {None, <<k>>}) =>
                        chats'[k] = MostRecent(chats[k], MemoryCacheSize)
                 /\ (last'.chat_id \notin {None, <<k>>}) =>
                        chats'[k] = chats[k]
                 /\ Len(chats[k]) <= MemoryCacheSize => chats'[k] = chats[k]
          /\ Trimmed(chats', last'.chat_id) = chats']_vars

\* the trim ran for one chat whose working set was full after three
\* messages, and the two newest of them are what the working set holds
C34_Witness ==
    /\ last.op = "clear_old_messages_from_memory"
    /\ last.chat_id = <<ConversationChat>>
    /\ Len(log) = 3
    /\ \A i \in 1..3 : log[i].chat_id = ConversationChat
    /\ chats[ConversationChat] = <<log[2], log[3]>>

----------------------------------------------------------------------------
(* C35 *)

\* the diagnostic the classification of C35 gives to an error text holding
\* the phrases of message
Diagnosed(message) ==
    IF {"404", "model"} \subseteq message
    THEN <<ERROR_GLYPH, "model_not_found">>
    ELSE IF message \cap {"API key", "401"} # {}
    THEN <<ERROR_GLYPH, "api_key">>
    ELSE IF message \cap {"quota", "rate limit", "429"} # {}
    THEN <<ERROR_GLYPH, "quota">>
    ELSE <<ERROR_GLYPH, "ai_error">>

\* C35 as stated: when generate_content raises, the generate call returns
\* the model-not-found diagnostic for an error text with '404' and 'model',
\* otherwise the invalid-key diagnostic for 'API key' or '401', otherwise the
\* quota diagnostic for 'quota', 'rate limit' or '429', otherwise the generic
\* diagnostic; a string is returned and nothing is raised.
C35_ErrorClassification ==
    (/\ last.op \in {"analyze_conflict", "analyze_tips"}
     /\ last.calls = 1
     /\ last.outcome.kind = "raises") =>
        /\ last.response = Diagnosed(last.outcome.message)
        /\ ~last.raised

----------------------------------------------------------------------------
(* C36 *)

\* the command passed the rate-limit gate and ended without an Analyzer
\* call: no messages, a usage error, an invalid format, a target not found
EndedEarly(o) ==
    /\ ReachesGate(o, AUTHORIZED_USERS)
    /\ ~ToldToWait(o)
    /\ o.analysis.llm_calls = 0

\* C36: a rate-limited command that passes the gate takes its sender's slot
\* even when it then ends without an Analyzer call: the sender's ledger entry
\* is the time of that command, a rate-limited command of the same user that
\* follows it at once is told to wait, and so is every command that comes to
\* the gate less than rate_limit_seconds after the entry.
C36_SlotConsumedAtGate ==
    [][/\ EndedEarly(last') =>
              /\ last'.from_user[1] \in DOMAIN user_last_command'
              /\ user_last_command'[last'.from_user[1]] = now
       /\ (/\ "analysis" \in DOMAIN last
           /\ EndedEarly(last)
           /\ ReachesGate(last', AUTHORIZED_USERS)
           /\ last'.from_user = last.from_user) =>
              /\ ToldToWait(last')
              /\ NothingDone(last')
       /\ (/\ ReachesGate(last', AUTHORIZED_USERS)
           /\ last'.from_user[1] \in DOMAIN user_last_command
           /\ now - user_last_command[last'.from_user[1]] < RateLimitTicks) =>
              ToldToWait(last')
      ]_vars

\* no chat holds a message, so the command the user was let through with at
\* time 0 ended with 'no messages' or an argument notice; the same user's
\* command one tick later is told to wait
C36_Witness ==
    /\ db = <<>>
    /\ ReachesGate(last, AUTHORIZED_USERS)
    /\ ToldToWait(last)
    /\ user_last_command[last.from_user[1]] = 0
    /\ now = 1

----------------------------------------------------------------------------
(* C37 *)

\* the notices a command is turned away with before it does anything
TURNED_AWAY ==
    {"not_authorized", "group_only", "private_chat_only",
     "main_admin_only_add", "main_admin_only_remove"}

\* C37: a list that is empty at startup is empty in every state: no caller is
\* the main administrator, so every /add_user (and /remove_user) is turned
\* away and leaves the list as it is, and every authorized-only command is
\* turned away with one notice, without a Message Store call or an Analyzer
\* call.
C37_EmptyListStaysEmpty ==
    startup = <<>> =>
        /\ AUTHORIZED_USERS = <<>>
        /\ ("op" \in DOMAIN last /\ "sent" \in DOMAIN last /\
            last.op \in AuthorizedOnly \cup {"add_user", "remove_user"}) =>
               /\ NothingDone(last)
               /\ \A i \in 1..Len(last.sent) : last.sent[i].kind \in TURNED_AWAY
               /\ last.from_user # None => Len(last.sent) = 1

\* with the list empty from startup, /add_user of user 1 in a group chat is
\* answered with the main-administrator notice
C37_Witness ==
    /\ startup = <<>>
    /\ last.op = "add_user"
    /\ last.chat_id \in Groups
    /\ last.from_user = <<1>>
    /\ last.sent = <<Out(last.chat_id, "main_admin_only_add")>>

----------------------------------------------------------------------------
(* C38 *)

\* the tasks whose handler found messages in its window and acknowledged
Acknowledged ==
    {id \in DOMAIN tasks :
        /\ tasks[id].run # None
        /\ tasks[id].steps # <<>>
        /\ tasks[id].steps[1].what.kind = "analysis_started"}

\* the messages ingested since the task read its window
IngestedSince(task) ==
    {Stored(log[i]) : i \in (task.ingested + 1)..Len(log)}

\* C38: the window of an analysis is what the Store held when the handler
\* read it.  A message ingested afterwards, while the handler is suspended in
\* a send or in the LLM call, is not among the messages given to the
\* Analyzer, and the count announced in the acknowledgement is the number of
\* messages given to the Analyzer, which is the count its report shows.
C38_WindowIsSnapshot ==
    \A id \in Acknowledged :
        LET task == tasks[id]
            messages == task.run[1].analysis.messages
        IN  /\ task.steps[1].what.count > 0
            /\ Reached(task.steps, ANALYZE_MESSAGES) =>
                   /\ task.steps[1].what.count = Len(messages)
                   /\ Range(messages) \cap IngestedSince(task) = {}
                   /\ analyze_messages(<<"valid">>, messages,
                                       Responded(JSON_OBJECT)).result =
                          <<"group_report", task.steps[1].what.count>>

\* the handler announced one message and is in its LLM call with that one
\* message; a second message was ingested into the same chat after the
\* handler had read, and the chat's table holds both
C38_Witness ==
    /\ 1 \in AwaitingLLM
    /\ 1 \in Acknowledged
    /\ tasks[1].steps[1].what.count = 1
    /\ Len(tasks[1].run[1].analysis.messages) = 1
    /\ tasks[1].ingested = 0
    /\ Len(log) = 1
    /\ log[1].chat_id = tasks[1].chat_id
    /\ Len(RowsOfChat(db, tasks[1].chat_id)) = 2

----------------------------------------------------------------------------
(* C39 *)

\* no id occurs twice in the list
DuplicateFree(users) ==
    \A i, j \in 1..Len(users) : users[i] = users[j] => i = j

\* C39: from a duplicate-free list, /add_user and /remove_user commands in
\* any order, interleaved at their awaits, leave the list duplicate-free;
\* when a removal reports success its target is not in the list, and an
\* addition of an id that is in the list is refused and changes nothing.
C39_NoDuplicates ==
    [][/\ DuplicateFree(AUTHORIZED_USERS')
       /\ (last'.acted /\ last'.op = "remove_user" /\ last'.ok) =>
              last'.target \notin Range(AUTHORIZED_USERS')
       /\ (/\ last'.acted
           /\ last'.op = "add_user"
           /\ last'.target \in Range(AUTHORIZED_USERS)) =>
              /\ ~last'.ok
              /\ AUTHORIZED_USERS' = AUTHORIZED_USERS
      ]_vars

\* two /add_user @username commands for user 3 were suspended in
\* get_chat_member together; the first to resume added the id, the second
\* was refused, and the list holds the id once
C39_Witness ==
    /\ Len(tasks) = 2
    /\ \A id \in {1, 2} :
           /\ tasks[id].op = "add_user"
           /\ tasks[id].form = "handle"
           /\ tasks[id].target = 3
    /\ tasks[1].together = {2}
    /\ tasks[1].report = "done"
    /\ tasks[2].report = "refused"
    /\ AUTHORIZED_USERS = <<1, 3>>

----------------------------------------------------------------------------
(* C40 *)

\* C40: every working set holds at most memory_cache_size messages in every
\* state, so /clear_memory removes nothing: the message counts and the chat
\* counts it reports for before and after are equal, cleared_messages is 0,
\* and the working sets are as they were.
C40_ClearMemoryRemovesNothing ==
    [][/\ \A k \in DOMAIN chats' : Len(chats'[k]) <= MemoryCacheSize
       /\ (last'.op = "clear_memory" /\ last'.store # {}) =>
              LET report == last'.sent[1]
              IN  /\ report.kind = "memory_cleared"
                  /\ report.before = report.after
                  /\ report.before.total_messages_in_memory
                         - report.after.total_messages_in_memory = 0
                  /\ report.before = get_memory_usage_stats(chats)
                  /\ chats' = chats
      ]_vars

\* three messages went to one chat and the main administrator's
\* /clear_memory reports two messages in one chat before and after
C40_Witness ==
    /\ last.op = "clear_memory"
    /\ last.store # {}
    /\ Len(log) = 3
    /\ \A i \in 1..3 : log[i].chat_id = ConversationChat
    /\ last.sent[1].before.total_messages_in_memory = 2
    /\ last.sent[1].after.total_messages_in_memory = 2
    /\ last.sent[1].before.total_chats_in_memory = 1

====
